---- MODULE Spec2Model ----
(***************************************************************************)
(* A model of the aircraft design optimizer (src/src/design_optimizer.py), *)
(* the aircraft aerodynamic model (src/src/aircraft.py), the takeoff       *)
(* analysis (src/src/performance_analysis.py) and the flight envelope      *)
(* (src/flight_conditions.py).                                             *)
(*                                                                         *)
(* A float is modelled as a record [t, k, v]:                              *)
(*   t = "py"  a Python float or int,   t = "np"  a numpy.float64,         *)
(*   t = "exc" a raised exception (k is then the exception's class);       *)
(*   k = "fin" a finite number whose value is v / SCALE (fixed point),     *)
(*   k = "inf", "ninf", "nan" the IEEE-754 special values.                 *)
(* The distinction between Python and numpy floats is kept because the two *)
(* differ in what a division by zero does: Python raises                   *)
(* ZeroDivisionError, numpy returns inf or nan (with a warning only).      *)
(***************************************************************************)
EXTENDS Integers, Sequences, FiniteSets, TLC

\* Fixed-point resolution: a finite float x is held as the integer x * SCALE.
SCALE == 1000

----------------------------------------------------------------------------
(* Float arithmetic                                                        *)

Py(n) == [t |-> "py", k |-> "fin", v |-> n]
Np(n) == [t |-> "np", k |-> "fin", v |-> n]
Exc(cls) == [t |-> "exc", k |-> cls, v |-> 0]
Special(ty, kind) == [t |-> ty, k |-> kind, v |-> 0]

IsExc(a) == a.t = "exc"
IsFin(a) == a.t # "exc" /\ a.k = "fin"
IsNan(a) == a.t # "exc" /\ a.k = "nan"
IsInfinite(a) == a.t # "exc" /\ a.k \in {"inf", "ninf"}

\* The type of the result of a binary operation: numpy.float64 wins.
JoinT(a, b) == IF a.t = "np" \/ b.t = "np" THEN "np" ELSE "py"

Abs(n) == IF n < 0 THEN -n ELSE n
Sgn(n) == IF n > 0 THEN 1 ELSE IF n < 0 THEN -1 ELSE 0
MinInt(a, b) == IF a < b THEN a ELSE b
MaxInt(a, b) == IF a < b THEN b ELSE a

\* The sign of a non-nan float: -1, 0 or 1.
SignOf(a) == CASE a.k = "inf" -> 1 [] a.k = "ninf" -> -1 [] OTHER -> Sgn(a.v)

\* An infinity of the given sign and type.
InfOf(ty, s) == IF s < 0 THEN Special(ty, "ninf") ELSE Special(ty, "inf")

\* Every call of a function of the program, and every float operation, is
\* made through Call, which finds the callee by its name the way Python binds
\* a name when the call is made.  The callees are defined below, each under
\* the name it has in the source; Call itself follows the last of them.
RECURSIVE Call(_, _)

Add(a, b) == Call("__add__", <<a, b>>)
Mul(a, b) == Call("__mul__", <<a, b>>)
Div(a, b) == Call("__truediv__", <<a, b>>)
Pow(a, e) == Call("__pow__", <<a, e>>)
Sqrt(a) == Call("np.sqrt", <<a>>)
NpExp(a) == Call("np.exp", <<a>>)
PyMin(a, b) == Call("min", <<a, b>>)
PyMax0(x) == Call("max", <<x>>)
NpLog(a) == Call("np.log", <<a>>)

\* Fixed-point product and quotient of two integers, rounded toward zero and
\* computed in pieces that stay inside the model checker's 32-bit integers.
MulFix(a, b) ==
    LET lo == MinInt(Abs(a), Abs(b))
        hi == MaxInt(Abs(a), Abs(b))
    IN Sgn(a) * Sgn(b) * (lo * (hi \div SCALE) + (lo * (hi % SCALE)) \div SCALE)

DivFix(a, b) ==
    LET n == Abs(a)
        d == Abs(b)
        q0 == n \div d
        r0 == n % d
        q1 == (r0 * 10) \div d
        r1 == (r0 * 10) % d
        q2 == (r1 * 10) \div d
        r2 == (r1 * 10) % d
        q3 == (r2 * 10) \div d
    IN Sgn(a) * Sgn(b) * (q0 * SCALE + q1 * 100 + q2 * 10 + q3)

RECURSIVE SqrtIter(_, _)
SqrtIter(n, x) ==
    LET y == (x + n \div x) \div 2
    IN IF y >= x THEN x ELSE SqrtIter(n, y)

\* The integer square root (floor).
ISqrt(n) == IF n <= 0 THEN 0 ELSE SqrtIter(n, MinInt(n, 46340))

\* The fixed-point square root of a non-negative fixed-point integer.
SqrtFix(n) == IF n < 2000000 THEN ISqrt(n * SCALE) ELSE ISqrt(n * 10) * 10

Neg(a) ==
    CASE IsExc(a) -> a
      [] a.k = "nan" -> a
      [] a.k = "inf" -> Special(a.t, "ninf")
      [] a.k = "ninf" -> Special(a.t, "inf")
      [] OTHER -> [a EXCEPT !.v = -a.v]

float_add(a, b) ==
    CASE IsExc(a) -> a
      [] IsExc(b) -> b
      [] a.k = "nan" \/ b.k = "nan" -> Special(JoinT(a, b), "nan")
      [] a.k = "fin" /\ b.k = "fin" -> [t |-> JoinT(a, b), k |-> "fin", v |-> a.v + b.v]
      [] a.k = "fin" -> Special(JoinT(a, b), b.k)
      [] b.k = "fin" -> Special(JoinT(a, b), a.k)
      [] a.k = b.k -> Special(JoinT(a, b), a.k)
      [] OTHER -> Special(JoinT(a, b), "nan")

\* a - b and a ** 2
Sub(a, b) == Add(a, Neg(b))
Sq(a) == Mul(a, a)

float_mul(a, b) ==
    CASE IsExc(a) -> a
      [] IsExc(b) -> b
      [] a.k = "nan" \/ b.k = "nan" -> Special(JoinT(a, b), "nan")
      [] a.k = "fin" /\ b.k = "fin" ->
            [t |-> JoinT(a, b), k |-> "fin", v |-> MulFix(a.v, b.v)]
      [] SignOf(a) = 0 \/ SignOf(b) = 0 -> Special(JoinT(a, b), "nan")
      [] OTHER -> InfOf(JoinT(a, b), SignOf(a) * SignOf(b))

\* a / b.  Two Python floats raise ZeroDivisionError on a zero divisor; as soon
\* as one operand is a numpy.float64 the quotient is inf, -inf or nan instead.
float_truediv(a, b) ==
    CASE IsExc(a) -> a
      [] IsExc(b) -> b
      [] b.k = "fin" /\ b.v = 0 /\ JoinT(a, b) = "py" -> Exc("ZeroDivisionError")
      [] a.k = "nan" \/ b.k = "nan" -> Special(JoinT(a, b), "nan")
      [] b.k = "fin" /\ b.v = 0 ->
            IF SignOf(a) = 0 THEN Special("np", "nan") ELSE InfOf("np", SignOf(a))
      [] a.k = "fin" /\ b.k = "fin" ->
            [t |-> JoinT(a, b), k |-> "fin", v |-> DivFix(a.v, b.v)]
      [] a.k = "fin" -> [t |-> JoinT(a, b), k |-> "fin", v |-> 0]
      [] b.k = "fin" -> InfOf(JoinT(a, b), SignOf(a) * SignOf(b))
      [] OTHER -> Special(JoinT(a, b), "nan")

\* numpy.sqrt: nan (not an exception) for a negative argument.
np_sqrt(a) ==
    CASE IsExc(a) -> a
      [] a.k = "nan" -> Special("np", "nan")
      [] a.k = "inf" -> Special("np", "inf")
      [] a.k = "ninf" -> Special("np", "nan")
      [] a.v < 0 -> Special("np", "nan")
      [] OTHER -> Np(SqrtFix(a.v))

\* The order of floats: every comparison with nan is false.
Rank(a) == CASE a.k = "ninf" -> -1 [] a.k = "inf" -> 1 [] OTHER -> 0
Lt(a, b) ==
    /\ a.k # "nan" /\ b.k # "nan"
    /\ \/ Rank(a) < Rank(b)
       \/ Rank(a) = 0 /\ Rank(b) = 0 /\ a.v < b.v
Gt(a, b) == Lt(b, a)
Le(a, b) == a.k # "nan" /\ b.k # "nan" /\ ~Lt(b, a)
Ge(a, b) == Le(b, a)

\* Python's max(0, x) and min(a, b): the first argument is kept unless the
\* second one compares strictly greater (smaller), so a nan second argument
\* never replaces the first and a nan first argument is never replaced.
py_max0(x) == IF IsExc(x) THEN x ELSE IF Gt(x, Py(0)) THEN x ELSE Py(0)
py_min(a, b) ==
    CASE IsExc(a) -> a
      [] IsExc(b) -> b
      [] Lt(b, a) -> b
      [] OTHER -> a

\* Numerical equality of two floats, whatever their Python type.
NumEq(a, b) == ~IsExc(a) /\ ~IsExc(b) /\ a.k = b.k /\ a.v = b.v

\* a * num / den for a float a and the exact rational constant num / den
\* (used for constants finer than the fixed-point resolution).
MulRat(a, num, den) ==
    CASE IsExc(a) -> a
      [] a.k = "fin" -> [a EXCEPT !.v = Sgn(a.v) * Sgn(num) * ((Abs(a.v) * Abs(num)) \div den)]
      [] a.k = "nan" -> a
      [] num < 0 -> Neg(a)
      [] OTHER -> a

\* Natural logarithm of a positive fixed-point integer: ln x = 2 atanh z with
\* z = (x - 1) / (x + 1), after halving or doubling x into [0.5, 2].
RECURSIVE LnFix(_)
LnFix(n) ==
    IF n > 2 * SCALE THEN LnFix(n \div 2) + 693
    ELSE IF 2 * n < SCALE THEN LnFix(n * 2) - 693
    ELSE LET z == DivFix(n - SCALE, n + SCALE)
             z2 == MulFix(z, z)
             z3 == MulFix(z, z2)
             z5 == MulFix(z3, z2)
             z7 == MulFix(z5, z2)
         IN 2 * (z + z3 \div 3 + z5 \div 5 + z7 \div 7)

\* e ** y for a fixed-point integer y.
RECURSIVE ExpFix(_)
ExpFix(y) ==
    IF y < 0 THEN DivFix(SCALE, ExpFix(-y))
    ELSE IF y > SCALE THEN MulFix(ExpFix(y - SCALE), ExpFix(SCALE))
    ELSE LET y2 == MulFix(y, y)
             y3 == MulFix(y2, y)
             y4 == MulFix(y3, y)
             y5 == MulFix(y4, y)
             y6 == MulFix(y5, y)
         IN SCALE + y + y2 \div 2 + y3 \div 6 + y4 \div 24 + y5 \div 120 + y6 \div 720

\* a ** e for a positive finite float a and a Python float exponent e.
float_pow(a, e) ==
    CASE IsExc(a) -> a
      [] a.k = "fin" /\ a.v > 0 ->
            [t |-> JoinT(a, e), k |-> "fin", v |-> ExpFix(MulFix(e.v, LnFix(a.v)))]
      [] OTHER -> Special(JoinT(a, e), "nan")

\* numpy.exp
np_exp(a) ==
    CASE IsExc(a) -> a
      [] a.k = "fin" -> Np(ExpFix(a.v))
      [] a.k = "inf" -> Special("np", "inf")
      [] a.k = "ninf" -> Np(0)
      [] OTHER -> Special("np", "nan")

----------------------------------------------------------------------------
(* The atmosphere model (flight_conditions.py)                             *)

\* Sea level conditions
T0 == Py(288150)
P0 == Py(101325000)

\* T0 + lapse_rate * altitude; lapse_rate = -0.0065 K/m is applied as the exact
\* rational -65/10000.
LapseTemperature(altitude) == Add(T0, MulRat(altitude, -65, 10000))

\* P0 * (temperature / T0) ** (-9.80665 / (287.0 * lapse_rate))
LapsePressure(temperature) == Mul(P0, Pow(Div(temperature, T0), Py(5257)))

\* The temperature and pressure of the branch for altitude <= 11000.
Troposphere(altitude) ==
    [temperature |-> LapseTemperature(altitude),
     pressure |-> LapsePressure(LapseTemperature(altitude))]

\* A stratosphere that starts from the state at 10 km.
StratosphereFrom10km(altitude) ==
    LET temp_11km == LapseTemperature(Py(10000 * SCALE))
    IN [temperature |-> temp_11km,
        pressure |-> Mul(LapsePressure(temp_11km),
                         NpExp(Div(Mul(Py(-9807), Sub(altitude, Py(11000 * SCALE))),
                                   Mul(Py(287000), temp_11km))))]

\* The temperature and pressure of the branch for altitude > 11000.
Stratosphere(altitude) ==
    LET temp_11km == LapseTemperature(Py(11000 * SCALE))
    IN [temperature |-> temp_11km,
        pressure |-> Mul(LapsePressure(temp_11km),
                         NpExp(Div(Mul(Py(-9807), Sub(altitude, Py(11000 * SCALE))),
                                   Mul(Py(287000), temp_11km))))]

standard_atmosphere(altitude) ==
    LET layer == IF Le(altitude, Py(11000 * SCALE)) THEN Troposphere(altitude)
                 ELSE Stratosphere(altitude)
    IN [altitude |-> altitude,
        temperature |-> layer.temperature,
        pressure |-> layer.pressure,
        density |-> Div(layer.pressure, Mul(Py(287000), layer.temperature)),
        speed_of_sound |-> Sqrt(Mul(Mul(Py(1400), Py(287000)), layer.temperature))]

----------------------------------------------------------------------------
(* The aircraft (aircraft.py).  Objects live in a heap h = [geom, mass,    *)
(* ac]: three maps from object identities to AircraftGeometry,             *)
(* AircraftMass and Aircraft objects; an Aircraft holds the identities of  *)
(* its geometry and of its mass.                                           *)

PI == Py(3142)

\* No allocation: the first object of the table is used again.
ReuseId(f) == 1

\* The identity of a newly allocated object of the table f.
NewId(f) == CHOOSE i \in 1..(Cardinality(DOMAIN f) + 1) :
                i \notin DOMAIN f /\ \A j \in 1..(i - 1) : j \in DOMAIN f

\* Aircraft.__init__: the fields of the new object.  A field that is an
\* exception means the constructor raised it (k is evaluated before cl_alpha).
AircraftInit(name, geometry, mass, h) ==
    LET aspect_ratio == h.geom[geometry].aspect_ratio
    IN [name |-> name,
        geometry |-> geometry,
        mass |-> mass,
        cd0 |-> Py(25),
        k |-> Div(Py(1 * SCALE), Mul(Mul(PI, aspect_ratio), Py(800))),
        cl_max |-> Py(1600),
        cl_alpha |-> Div(Mul(Py(2 * SCALE), PI),
                         Add(Py(1 * SCALE), Div(Py(2 * SCALE), aspect_ratio)))]

\* The exception Aircraft.__init__ raised, or "none".
InitRaised(a) ==
    IF IsExc(a.k) THEN a.k.k ELSE IF IsExc(a.cl_alpha) THEN a.cl_alpha.k ELSE "none"

\* numpy.radians
Radians(a) ==
    CASE IsExc(a) -> a
      [] a.k = "fin" -> Np(Sgn(a.v) * ((Abs(a.v) * 3142) \div (180 * SCALE)))
      [] OTHER -> Special("np", a.k)

\* The lift coefficient without the limit of the stall.
LiftCoefficientUnlimited(a, angle_of_attack) == Mul(a.cl_alpha, Radians(angle_of_attack))

calculate_lift_coefficient(a, angle_of_attack) ==
    LET alpha_rad == Radians(angle_of_attack)
        cl == Mul(a.cl_alpha, alpha_rad)
    IN PyMin(cl, a.cl_max)

calculate_drag_coefficient(a, lift_coefficient) ==
    Add(a.cd0, Mul(a.k, Sq(lift_coefficient)))

calculate_lift_drag_ratio(a, angle_of_attack) ==
    LET cl == Call("calculate_lift_coefficient", <<a, angle_of_attack>>)
        cd == Call("calculate_drag_coefficient", <<a, cl>>)
    IN CASE IsExc(cl) -> cl
         [] IsExc(cd) -> cd
         [] Gt(cd, Py(0)) -> Div(cl, cd)
         [] OTHER -> Py(0)

----------------------------------------------------------------------------
(* The performance analyzer (performance_analysis.py)                      *)

\* The number of angles find_optimal_angle_of_attack samples.
NumAngles == 100

\* numpy.linspace(-5, 20, NumAngles)[i], i = 0 .. NumAngles - 1
AngleAt(i) == Np(-5 * SCALE + (i * 25 * SCALE) \div (NumAngles - 1))

\* One iteration of the loop of find_optimal_angle_of_attack, at sample i.
\* best holds best_ld and best_angle; once calculate_lift_drag_ratio has
\* raised, the exception is what is left of the loop.
ScanStep(a, i, best) ==
    IF IsExc(best.best_ld) THEN best
    ELSE LET angle == AngleAt(i)
             ld_ratio == Call("calculate_lift_drag_ratio", <<a, angle>>)
         IN IF IsExc(ld_ratio) THEN [best_ld |-> ld_ratio, best_angle |-> ld_ratio]
            ELSE IF Gt(ld_ratio, best.best_ld)
                 THEN [best_ld |-> ld_ratio, best_angle |-> angle]
                 ELSE best

\* The iterations lo .. hi of the loop, in order (split in halves only to
\* keep the evaluation's nesting shallow).
RECURSIVE ScanAngles(_, _, _, _)
ScanAngles(a, lo, hi, best) ==
    IF lo > hi THEN best
    ELSE IF lo = hi THEN ScanStep(a, lo, best)
    ELSE LET mid == (lo + hi) \div 2
             first == ScanAngles(a, lo, mid, best)
         IN IF IsExc(first.best_ld) THEN first
            ELSE ScanAngles(a, mid + 1, hi, first)

find_optimal_angle_of_attack(a) ==
    ScanAngles(a, 0, NumAngles - 1, [best_ld |-> Py(0), best_angle |-> Py(0)]).best_angle

\* analyze_takeoff_performance(runway_length, obstacle_height = 15.24).  exc
\* is the exception raised ("none" if none): the stall speed is computed first.
analyze_takeoff_performance(a, h, runway_length) ==
    LET atm == Call("standard_atmosphere", <<Py(0)>>)
        wing_area == h.geom[a.geometry].wing_area
        weight == Mul(h.mass[a.mass].max_takeoff_weight, Py(9810))
        v_stall == Sqrt(Div(Mul(Py(2 * SCALE), weight),
                            Mul(Mul(atm.density, wing_area), a.cl_max)))
        v_takeoff == Mul(Py(1200), v_stall)
        wing_loading == IF IsExc(v_stall) THEN v_stall ELSE Div(weight, wing_area)
        ground_roll == IF IsExc(wing_loading) THEN wing_loading
                       ELSE IF Lt(wing_loading, Py(2000 * SCALE))
                            THEN Mul(wing_loading, Py(50))
                            ELSE Mul(wing_loading, Py(80))
        climb_gradient == Py(60)
        climb_distance == Div(Py(15240), climb_gradient)
        total_distance == Add(ground_roll, climb_distance)
    IN [exc |-> IF IsExc(total_distance) THEN total_distance.k ELSE "none",
        v_stall |-> v_stall,
        v_takeoff |-> v_takeoff,
        ground_roll |-> ground_roll,
        climb_distance |-> climb_distance,
        total_distance |-> total_distance,
        runway_adequate |-> ~IsExc(total_distance) /\ Le(total_distance, runway_length)]

\* numpy.log: -inf at zero and nan below it (with a warning only).
np_log(a) ==
    CASE IsExc(a) -> a
      [] a.k = "nan" \/ a.k = "ninf" -> Special("np", "nan")
      [] a.k = "inf" -> Special("np", "inf")
      [] a.v < 0 -> Special("np", "nan")
      [] a.v = 0 -> Special("np", "ninf")
      [] OTHER -> Np(LnFix(a.v))

\* The default specific fuel consumption, 0.5e-4 kg/N/s; a consumption is held
\* as the exact rational num / den, being finer than the fixed-point resolution.
DefaultSfc == [num |-> 1, den |-> 20000]

\* The ratio taken upside down.
WeightRatioInverted(w_initial, w_final) == Div(w_final, w_initial)

\* The ratio of the weights of the Breguet equation.
WeightRatio(w_initial, w_final) == Div(w_initial, w_final)

\* calculate_range(cruise_altitude, cruise_speed, fuel_weight, sfc): the range
\* in kilometres (Breguet), or the exception raised.
\* The Breguet equation with the cruise speed taken as an equivalent airspeed:
\* the true airspeed grows as the density at the cruise altitude falls.
BreguetRangeOfEquivalentSpeed(atm, cruise_speed, sfc, ld_ratio, w_initial, w_final) ==
    Mul(Mul(MulRat(Mul(cruise_speed, Sqrt(Div(Py(1225), atm.density))), sfc.den, sfc.num),
            ld_ratio),
        NpLog(WeightRatio(w_initial, w_final)))

\* range_m, the Breguet range equation, from the locals of calculate_range:
\* atm, the conditions at the cruise altitude, is not used.
BreguetRange(atm, cruise_speed, sfc, ld_ratio, w_initial, w_final) ==
    Mul(Mul(MulRat(cruise_speed, sfc.den, sfc.num), ld_ratio),
        NpLog(WeightRatio(w_initial, w_final)))

calculate_range(a, h, cruise_altitude, cruise_speed, fuel_weight, sfc) ==
    LET w_initial == Mul(h.mass[a.mass].max_takeoff_weight, Py(9810))
        w_final == Sub(w_initial, Mul(fuel_weight, Py(9810)))
        atm == Call("standard_atmosphere", <<cruise_altitude>>)
        best_aoa == Call("find_optimal_angle_of_attack", <<a>>)
        cl == Call("calculate_lift_coefficient", <<a, best_aoa>>)
        cd == Call("calculate_drag_coefficient", <<a, cl>>)
        ld_ratio == Div(cl, cd)
        range_m == BreguetRange(atm, cruise_speed, sfc, ld_ratio, w_initial, w_final)
    IN IF IsExc(best_aoa) THEN best_aoa
       ELSE IF IsExc(ld_ratio) THEN ld_ratio
       ELSE Div(range_m, Py(1000 * SCALE))

\* cl_endurance = np.sqrt(3 * self.aircraft.cd0 / self.aircraft.k)
EnduranceLift(a) == Sqrt(Div(Mul(Py(3 * SCALE), a.cd0), a.k))

\* v_endurance, the speed of level flight at cl_endurance and the maximum
\* takeoff weight
EnduranceSpeed(a, h, altitude) ==
    LET atm == Call("standard_atmosphere", <<altitude>>)
        weight == Mul(h.mass[a.mass].max_takeoff_weight, Py(9810))
    IN Sqrt(Div(Mul(Py(2 * SCALE), weight),
                Mul(Mul(atm.density, h.geom[a.geometry].wing_area), EnduranceLift(a))))

\* calculate_endurance(altitude, fuel_weight, sfc = 0.5e-4): the endurance in
\* hours.  The energy of the fuel is counted in MJ (43 MJ/kg) and the quotient
\* brought back to seconds afterwards, 1e6 / 3600 being 2500 / 9.
calculate_endurance(a, h, altitude, fuel_weight) ==
    LET cl_endurance == EnduranceLift(a)
        cd_endurance == Call("calculate_drag_coefficient", <<a, cl_endurance>>)
        weight == Mul(h.mass[a.mass].max_takeoff_weight, Py(9810))
        v_endurance == EnduranceSpeed(a, h, altitude)
        power_required == Mul(Div(Mul(weight, cd_endurance), cl_endurance), v_endurance)
        fuel_energy == Mul(fuel_weight, Py(43 * SCALE))
        engine_efficiency == Py(350)
        endurance == Div(Mul(fuel_energy, engine_efficiency), power_required)
    IN IF IsExc(endurance) \/ endurance.k # "fin" THEN endurance
       ELSE MulRat(endurance, 2500, 9)


----------------------------------------------------------------------------
(* The flight envelope (flight_conditions.py)                              *)

\* The default None of an argument.
None == [t |-> "none", k |-> "none", v |-> 0]

\* The stall speed without the factor 2 of the lift equation.
StallSpeedUnfactored(a, h, altitude, weight, load_factor) ==
    LET atm == Call("standard_atmosphere", <<altitude>>)
        weight_force == Mul(weight, Py(9810))
    IN Sqrt(Div(Mul(weight_force, load_factor),
                Mul(Mul(atm.density, h.geom[a.geometry].wing_area), a.cl_max)))

calculate_stall_speed(a, h, altitude, weight, load_factor) ==
    LET atm == Call("standard_atmosphere", <<altitude>>)
        weight_force == Mul(weight, Py(9810))
    IN Sqrt(Div(Mul(Mul(Py(2 * SCALE), weight_force), load_factor),
                Mul(Mul(atm.density, h.geom[a.geometry].wing_area), a.cl_max)))

\* The number of velocities generate_v_n_diagram samples.
NumSamples == 50

\* numpy.linspace(0, stop, NumSamples)[i], i = 0 .. NumSamples - 1
LinspaceAt(stop, i) ==
    IF i = NumSamples - 1 THEN stop
    ELSE Mul(Np(i * SCALE), Div(stop, Py((NumSamples - 1) * SCALE)))

\* numpy.array of a list of floats: every element becomes a numpy.float64.
NpArray(list) ==
    [i \in 1..Len(list) |-> IF IsExc(list[i]) THEN list[i] ELSE [list[i] EXCEPT !.t = "np"]]

\* The envelope left open: the negative stall curve stops at the stall speed.
NegativeStallCurveOpen(v_d, v_stall, n_neg_limit) ==
    LET v_stall_neg == Mul(v_stall, Sqrt(Py(Abs(n_neg_limit.v))))
    IN [velocities |-> <<v_d, v_stall_neg>>,
        load_factors |-> <<n_neg_limit, n_neg_limit>>]

\* "Negative stall curve (simplified)": the last three points of the diagram.
NegativeStallCurve(v_d, v_stall, n_neg_limit) ==
    LET v_stall_neg == Mul(v_stall, Sqrt(Py(Abs(n_neg_limit.v))))
    IN [velocities |-> <<v_d, v_stall_neg, Py(0)>>,
        load_factors |-> <<n_neg_limit, n_neg_limit, Py(0)>>]

\* The load factor of the stall curve without the structural limit.
PositiveStallLoadUnlimited(a, h, atm, weight, n_pos_limit, v) ==
    Div(Mul(Mul(Mul(Mul(Py(500), atm.density), Sq(v)),
                h.geom[a.geometry].wing_area), a.cl_max),
        Mul(weight, Py(9810)))

\* The load factor of the positive stall curve at velocity v.
PositiveStallLoad(a, h, atm, weight, n_pos_limit, v) ==
    PyMin(Div(Mul(Mul(Mul(Mul(Py(500), atm.density), Sq(v)),
                      h.geom[a.geometry].wing_area), a.cl_max),
              Mul(weight, Py(9810))),
          n_pos_limit)

\* generate_v_n_diagram(altitude, weight): the exception raised ("none" if
\* none) and the two arrays returned.
generate_v_n_diagram(a, h, altitude, weight_arg) ==
    LET weight == IF weight_arg = None THEN h.mass[a.mass].max_takeoff_weight
                  ELSE weight_arg
        atm == Call("standard_atmosphere", <<altitude>>)
        v_stall == Call("calculate_stall_speed", <<a, h, altitude, weight, Py(1 * SCALE)>>)
        v_a == Mul(v_stall, Sqrt(Py(6 * SCALE)))
        v_d == Mul(v_a, Py(1400))
        n_pos_limit == Py(2500)
        n_neg_limit == Py(-1000)
        v_range == [i \in 1..NumSamples |-> LinspaceAt(v_a, i - 1)]
        emitted == SelectSeq(v_range, LAMBDA v : Ge(v, v_stall))
        stall_loads == [i \in 1..Len(emitted) |->
                           PositiveStallLoad(a, h, atm, weight, n_pos_limit, emitted[i])]
        negative == NegativeStallCurve(v_d, v_stall, n_neg_limit)
    IN IF IsExc(v_stall)
       THEN [exc |-> v_stall.k, velocities |-> << >>, load_factors |-> << >>]
       ELSE [exc |-> "none",
             velocities |-> NpArray(emitted \o <<v_a, v_d>> \o negative.velocities),
             load_factors |-> NpArray(stall_loads \o <<n_pos_limit, n_pos_limit>>
                                      \o negative.load_factors)]

----------------------------------------------------------------------------
(* Objectives and constraints (design_optimizer.py).  An objective is a    *)
(* record [cls, weight]; a constraint is a record [cls, limit, altitude].  *)

\* DesignObjective.__init__ / MaximizeLiftToDrag.__init__: the name.
ObjName(obj) ==
    IF obj.cls = "MaximizeLiftToDrag" THEN "Maximize L/D" ELSE obj.cls

\* The name an f-string builds from the constraint's limit.
ConName(c) == <<c.cls, c.limit.v>>

\* MaximizeLiftToDrag.evaluate
MaximizeLiftToDrag_evaluate(a) ==
    LET best_aoa == Call("find_optimal_angle_of_attack", <<a>>)
        max_ld == IF IsExc(best_aoa) THEN best_aoa
                  ELSE Call("calculate_lift_drag_ratio", <<a, best_aoa>>)
    IN Neg(max_ld)

\* The range itself, not negated.
MaximizeRangeUnsigned(obj, a, h) ==
    LET fuel_weight == Mul(h.mass[a.mass].max_takeoff_weight, obj.fuel_fraction)
    IN Call("calculate_range", <<a, h, obj.cruise_altitude, obj.cruise_speed,
                                 fuel_weight, DefaultSfc>>)

\* MaximizeRange.evaluate, for an objective [cruise_altitude, cruise_speed,
\* fuel_fraction]; the range is computed with the default sfc.
MaximizeRange_evaluate(obj, a, h) ==
    LET fuel_weight == Mul(h.mass[a.mass].max_takeoff_weight, obj.fuel_fraction)
        range_km == Call("calculate_range", <<a, h, obj.cruise_altitude, obj.cruise_speed,
                                              fuel_weight, DefaultSfc>>)
    IN Neg(range_km)

\* evaluate without max(0, ...): the signed margin to the limit.
StallSpeedMargin(c, a, h) ==
    LET atm == Call("standard_atmosphere", <<c.altitude>>)
        weight == Mul(h.mass[a.mass].max_takeoff_weight, Py(9810))
        v_stall == Sqrt(Div(Mul(Py(2 * SCALE), weight),
                            Mul(Mul(atm.density, h.geom[a.geometry].wing_area), a.cl_max)))
    IN Sub(v_stall, c.limit)

\* The stall speed at sea level, whatever the altitude of the constraint.
ConstraintStallSpeedAtSeaLevel(c, a, h) ==
    LET atm == Call("standard_atmosphere", <<Py(0)>>)
        weight == Mul(h.mass[a.mass].max_takeoff_weight, Py(9810))
    IN Sqrt(Div(Mul(Py(2 * SCALE), weight),
                Mul(Mul(atm.density, h.geom[a.geometry].wing_area), a.cl_max)))

\* v_stall of StallSpeedConstraint.evaluate
ConstraintStallSpeed(c, a, h) ==
    LET atm == Call("standard_atmosphere", <<c.altitude>>)
        weight == Mul(h.mass[a.mass].max_takeoff_weight, Py(9810))
    IN Sqrt(Div(Mul(Py(2 * SCALE), weight),
                Mul(Mul(atm.density, h.geom[a.geometry].wing_area), a.cl_max)))

StallSpeedConstraint_evaluate(c, a, h) ==
    PyMax0(Sub(ConstraintStallSpeed(c, a, h), c.limit))

TakeoffDistanceConstraint_evaluate(c, a, h) ==
    LET takeoff_data == Call("analyze_takeoff_performance", <<a, h, Mul(c.limit, Py(2 * SCALE))>>)
    IN PyMax0(Sub(takeoff_data.total_distance, c.limit))

WingLoadingConstraint_evaluate(c, a, h) ==
    LET wing_loading == Div(Mul(h.mass[a.mass].max_takeoff_weight, Py(9810)),
                            h.geom[a.geometry].wing_area)
    IN PyMax0(Sub(wing_loading, c.limit))

\* DesignObjective.evaluate and DesignConstraint.evaluate: the base classes.
DesignObjective_evaluate(obj, a, h) == Exc("NotImplementedError")
DesignConstraint_evaluate(c, a, h) == Exc("NotImplementedError")

\* o.evaluate(aircraft): the method of the class of o.
evaluate(o, a, h) ==
    CASE o.cls = "MaximizeLiftToDrag" -> MaximizeLiftToDrag_evaluate(a)
      [] o.cls = "MaximizeRange" -> MaximizeRange_evaluate(o, a, h)
      [] o.cls = "DesignObjective" -> DesignObjective_evaluate(o, a, h)
      [] o.cls = "StallSpeedConstraint" -> StallSpeedConstraint_evaluate(o, a, h)
      [] o.cls = "TakeoffDistanceConstraint" -> TakeoffDistanceConstraint_evaluate(o, a, h)
      [] o.cls = "WingLoadingConstraint" -> WingLoadingConstraint_evaluate(o, a, h)
      [] OTHER -> DesignConstraint_evaluate(o, a, h)

----------------------------------------------------------------------------
(* DesignOptimizer.  self.design_variables is an ordered mapping: a        *)
(* sequence of [name, lo, hi] with distinct names.                         *)

\* The loop without its "elif var_name in mass_dict" branch.
RECURSIVE UpdateLoopGeometryOnly(_, _, _, _)
UpdateLoopGeometryOnly(var_names, xs, i, d) ==
    IF i > Len(var_names) \/ d.exc # "none" THEN d
    ELSE LET var_name == var_names[i]
         IN IF var_name \in DOMAIN d.geom_dict
            THEN IF i > Len(xs) THEN [d EXCEPT !.exc = "IndexError"]
                 ELSE UpdateLoopGeometryOnly(var_names, xs, i + 1,
                                 [d EXCEPT !.geom_dict[var_name] = xs[i]])
            ELSE UpdateLoopGeometryOnly(var_names, xs, i + 1, d)

\* The for loop of create_aircraft_from_variables from index i on.  d holds
\* geom_dict, mass_dict and the exception raised so far ("none" if none);
\* x[i] raises IndexError when x is shorter than the variables it must fill.
RECURSIVE UpdateLoop(_, _, _, _)
UpdateLoop(var_names, xs, i, d) ==
    IF i > Len(var_names) \/ d.exc # "none" THEN d
    ELSE LET var_name == var_names[i]
         IN IF var_name \in DOMAIN d.geom_dict
            THEN IF i > Len(xs) THEN [d EXCEPT !.exc = "IndexError"]
                 ELSE UpdateLoop(var_names, xs, i + 1,
                                 [d EXCEPT !.geom_dict[var_name] = xs[i]])
            ELSE IF var_name \in DOMAIN d.mass_dict
            THEN IF i > Len(xs) THEN [d EXCEPT !.exc = "IndexError"]
                 ELSE UpdateLoop(var_names, xs, i + 1,
                                 [d EXCEPT !.mass_dict[var_name] = xs[i]])
            ELSE UpdateLoop(var_names, xs, i + 1, d)

\* No "ensure consistency" step: geom_dict is left as the loop made it.
EnsureConsistencySkipped(geom_dict) == geom_dict

\* geom_dict after the "ensure consistency" step: both keys are always in
\* geom_dict, whatever the design variables are.
EnsureConsistency(geom_dict) ==
    IF "wing_span" \in DOMAIN geom_dict /\ "wing_area" \in DOMAIN geom_dict
    THEN LET ar == Div(Sq(geom_dict.wing_span), geom_dict.wing_area)
         IN [geom_dict EXCEPT
                !.aspect_ratio = ar,
                !.wing_chord = IF IsExc(ar) THEN ar
                               ELSE Div(geom_dict.wing_area, geom_dict.wing_span)]
    ELSE geom_dict

\* create_aircraft_from_variables(x, base_aircraft) in heap h: the exception
\* raised ("none" if none), the heap afterwards and the new Aircraft's identity.
create_aircraft_from_variables(design_variables, xs, base_aircraft, h) ==
    LET geom == h.geom[h.ac[base_aircraft].geometry]
        mass == h.mass[h.ac[base_aircraft].mass]
        var_names == [i \in 1..Len(design_variables) |-> design_variables[i].name]
        d == UpdateLoop(var_names, xs, 1,
                        [geom_dict |-> geom, mass_dict |-> mass, exc |-> "none"])
        geom_dict == EnsureConsistency(d.geom_dict)
        new_geom == NewId(h.geom)
        new_mass == NewId(h.mass)
        new_ac == NewId(h.ac)
        h1 == [h EXCEPT !.geom = (new_geom :> geom_dict) @@ h.geom,
                        !.mass = (new_mass :> d.mass_dict) @@ h.mass]
        a == Call("Aircraft", <<h.ac[base_aircraft].name \o <<"_optimized">>,
                                new_geom, new_mass, h1>>)
    IN CASE d.exc # "none" -> [exc |-> d.exc, heap |-> h, ac |-> 0]
         [] IsExc(geom_dict.aspect_ratio) ->
                [exc |-> geom_dict.aspect_ratio.k, heap |-> h, ac |-> 0]
         [] IsExc(geom_dict.wing_chord) ->
                [exc |-> geom_dict.wing_chord.k, heap |-> h, ac |-> 0]
         [] InitRaised(a) # "none" -> [exc |-> InitRaised(a), heap |-> h, ac |-> 0]
         [] OTHER -> [exc |-> "none",
                      heap |-> [h1 EXCEPT !.ac = (new_ac :> a) @@ h.ac],
                      ac |-> new_ac]

\* The loops of objective_function: the weighted sum of the objectives and the
\* quadratic penalty of the constraints.  An exception ends the loop: Add and
\* Mul hand the first exception on.
RECURSIVE SumObjectives(_, _, _, _, _)
SumObjectives(objectives, i, a, h, total_objective) ==
    IF i > Len(objectives) \/ IsExc(total_objective) THEN total_objective
    ELSE SumObjectives(objectives, i + 1, a, h,
            Add(total_objective,
                Mul(objectives[i].weight, Call("evaluate", <<objectives[i], a, h>>))))

\* A penalty that grows with the violation, not with its square.
RECURSIVE SumPenaltyLinear(_, _, _, _, _)
SumPenaltyLinear(constraints, i, a, h, penalty) ==
    IF i > Len(constraints) \/ IsExc(penalty) THEN penalty
    ELSE LET violation == Call("evaluate", <<constraints[i], a, h>>)
         IN SumPenaltyLinear(constraints, i + 1, a, h,
                Add(penalty, Mul(Py(1000 * SCALE), violation)))

RECURSIVE SumPenalty(_, _, _, _, _)
SumPenalty(constraints, i, a, h, penalty) ==
    IF i > Len(constraints) \/ IsExc(penalty) THEN penalty
    ELSE LET violation == Call("evaluate", <<constraints[i], a, h>>)
         IN SumPenalty(constraints, i + 1, a, h,
                Add(penalty, Mul(Py(1000 * SCALE), Sq(violation))))

\* The value objective_function returns for an invalid design.
LargePenalty == Py(1000000 * SCALE)

\* A handler "except ZeroDivisionError": any other exception leaves the function.
ExceptZeroDivision(e) ==
    IF e = "ZeroDivisionError" THEN [raised |-> "none", value |-> LargePenalty]
    ELSE [raised |-> e, value |-> Exc(e)]

\* The handler "except Exception as e: return 1e6" of objective_function.
ExceptHandler(e) == [raised |-> "none", value |-> LargePenalty]

\* objective_function(x, base_aircraft): the value returned, the exception
\* that left the function ("none": the handler catches every Exception), the
\* heap afterwards and the candidate built (0 if its construction raised).
objective_function(self, xs, base_aircraft, h) ==
    LET c == Call("create_aircraft_from_variables",
                    <<self.design_variables, xs, base_aircraft, h>>)
        a == c.heap.ac[c.ac]
        total_objective == SumObjectives(self.objectives, 1, a, c.heap, Py(0))
        penalty == IF IsExc(total_objective) THEN total_objective
                   ELSE SumPenalty(self.constraints, 1, a, c.heap, Py(0))
        result == Add(total_objective, penalty)
        caught == IF c.exc # "none" THEN ExceptHandler(c.exc)
                  ELSE IF IsExc(result) THEN ExceptHandler(result.k)
                  ELSE [raised |-> "none", value |-> result]
    IN [value |-> caught.value, raised |-> caught.raised, heap |-> c.heap, cand |-> c.ac]

EmptyMap == [n \in {} |-> Py(0)]

NoResult ==
    [success |-> FALSE, optimized_aircraft |-> 0, design_variables |-> << >>,
     objective_value |-> Py(0), objectives |-> EmptyMap, constraints |-> EmptyMap]

\* The loops "Evaluate final performance" of optimize: the mapping from names
\* to values, and the exception an evaluate raised ("none" if none).
RECURSIVE FinalObjectives(_, _, _, _, _)
FinalObjectives(objs, i, a, h, acc) ==
    IF i > Len(objs) \/ acc.exc # "none" THEN acc
    ELSE LET val == Call("evaluate", <<objs[i], a, h>>)
         IN FinalObjectives(objs, i + 1, a, h,
                IF IsExc(val) THEN [acc EXCEPT !.exc = val.k]
                ELSE [acc EXCEPT !.map = (ObjName(objs[i]) :> val) @@ acc.map])

RECURSIVE FinalConstraints(_, _, _, _, _)
FinalConstraints(cons, i, a, h, acc) ==
    IF i > Len(cons) \/ acc.exc # "none" THEN acc
    ELSE LET val == Call("evaluate", <<cons[i], a, h>>)
         IN FinalConstraints(cons, i + 1, a, h,
                IF IsExc(val) THEN [acc EXCEPT !.exc = val.k]
                ELSE [acc EXCEPT !.map = (ConName(cons[i]) :> val) @@ acc.map])

\* optimize from the return of the search on: result.x is rebuilt and
\* evaluated again, outside objective_function's exception handler.
OptimizeTail(self, base, result_x, result_fun, success, h) ==
    LET c == Call("create_aircraft_from_variables",
                    <<self.design_variables, result_x, base, h>>)
        optimized_aircraft == c.heap.ac[c.ac]
        fo == FinalObjectives(self.objectives, 1, optimized_aircraft, c.heap,
                              [exc |-> "none", map |-> EmptyMap])
        fc == FinalConstraints(self.constraints, 1, optimized_aircraft, c.heap,
                               [exc |-> "none", map |-> EmptyMap])
        raised == IF c.exc # "none" THEN c.exc
                  ELSE IF fo.exc # "none" THEN fo.exc
                  ELSE fc.exc
    IN [raised |-> raised,
        heap |-> c.heap,
        result |-> IF raised # "none" THEN NoResult
                   ELSE [success |-> success,
                         optimized_aircraft |-> c.ac,
                         design_variables |->
                            [i \in 1..MinInt(Len(self.design_variables), Len(result_x)) |->
                                <<self.design_variables[i].name, result_x[i]>>],
                         objective_value |-> result_fun,
                         objectives |-> fo.map,
                         constraints |-> fc.map]]

----------------------------------------------------------------------------
(* The service ceiling (flight_conditions.py)                              *)

\* Python's max(a, b): a is kept unless b compares strictly greater.
py_max(a, b) ==
    CASE IsExc(a) -> a
      [] IsExc(b) -> b
      [] Gt(b, a) -> b
      [] OTHER -> a

\* wing_loading = weight * 9.81 / self.aircraft.geometry.wing_area
WingLoading(a, h, weight) == Div(Mul(weight, Py(9810)), h.geom[a.geometry].wing_area)

\* The empirical relationship: the branch of light aircraft below a wing
\* loading of 1000 N/m2, the branch of heavier aircraft from it on.
EmpiricalCeiling(wing_loading) ==
    IF Lt(wing_loading, Py(1000 * SCALE))
    THEN Add(Py(4000 * SCALE), Mul(Sub(Py(1000 * SCALE), wing_loading), Py(10 * SCALE)))
    ELSE Add(Py(4000 * SCALE), Mul(Sub(Py(5000 * SCALE), wing_loading), Py(2 * SCALE)))

\* The ceiling returned without its minimum.
ServiceCeilingUnfloored(a, h, weight) ==
    LET wing_loading == WingLoading(a, h, weight)
    IN IF IsExc(wing_loading) THEN wing_loading
       ELSE EmpiricalCeiling(wing_loading)

\* envelope.calculate_service_ceiling(weight)
calculate_service_ceiling(a, h, weight) ==
    LET wing_loading == WingLoading(a, h, weight)
    IN IF IsExc(wing_loading) THEN wing_loading
       ELSE py_max(EmpiricalCeiling(wing_loading), Py(1000 * SCALE))

----------------------------------------------------------------------------
(* The performance envelope and the climb (performance_analysis.py)         *)

\* The number of altitudes and of speeds of the envelope.
NumAltitudes == 30
NumSpeeds == 50

\* np.linspace(0, 15000, 30)[i - 1] and np.linspace(50, 300, 50)[j - 1]
EnvelopeAltitude(i) == Np(((i - 1) * 15000 * SCALE) \div (NumAltitudes - 1))
EnvelopeSpeed(j) == Np(50 * SCALE + ((j - 1) * 250 * SCALE) \div (NumSpeeds - 1))

\* The performance_map before the loops: the arrays of np.zeros.
performance_map ==
    [altitudes |-> [i \in 1..NumAltitudes |-> EnvelopeAltitude(i)],
     speeds |-> [j \in 1..NumSpeeds |-> EnvelopeSpeed(j)],
     power_required |-> [i \in 1..NumAltitudes |-> [j \in 1..NumSpeeds |-> Np(0)]],
     ld_ratios |-> [i \in 1..NumAltitudes |-> [j \in 1..NumSpeeds |-> Np(0)]],
     stall_speeds |-> [i \in 1..NumAltitudes |-> Np(0)]]

\* weight = self.aircraft.mass.max_takeoff_weight * 9.81
EnvelopeWeight(a, h) == Mul(h.mass[a.mass].max_takeoff_weight, Py(9810))

\* v_stall of the row of altitude alt
EnvelopeStallSpeed(a, h, alt) ==
    Sqrt(Div(Mul(Py(2 * SCALE), EnvelopeWeight(a, h)),
             Mul(Mul(Call("standard_atmosphere", <<alt>>).density,
                     h.geom[a.geometry].wing_area), a.cl_max)))

\* cl_required of a cell
LiftRequired(a, h, alt, speed) ==
    Div(Mul(Py(2 * SCALE), EnvelopeWeight(a, h)),
        Mul(Mul(Call("standard_atmosphere", <<alt>>).density, Sq(speed)),
            h.geom[a.geometry].wing_area))

\* A cell the aircraft cannot fly, left as np.zeros made it.
InfeasibleZero == [ld_ratio |-> Np(0), power_required |-> Np(0)]

\* A cell the aircraft cannot fly: L/D 0 and power np.inf.
Infeasible == [ld_ratio |-> Np(0), power_required |-> Special("np", "inf")]

\* The body of the inner loop: what is stored in the cell of alt and speed.
EnvelopeCell(a, h, alt, speed, v_stall) ==
    LET atm == Call("standard_atmosphere", <<alt>>)
        cl_required == LiftRequired(a, h, alt, speed)
        cd == Call("calculate_drag_coefficient", <<a, cl_required>>)
        drag == Mul(Mul(Mul(Mul(Py(500), atm.density), Sq(speed)),
                        h.geom[a.geometry].wing_area), cd)
    IN IF Ge(speed, v_stall)
       THEN IF Le(cl_required, a.cl_max)
            THEN [ld_ratio |-> Div(cl_required, cd), power_required |-> Mul(drag, speed)]
            ELSE Infeasible
       ELSE Infeasible

\* The number of altitudes calculate_climb_performance samples.
NumClimb == 50

\* np.linspace(altitude_range[0], altitude_range[1], 50)[n - 1]
ClimbAltitude(altitude_range, n) ==
    Np(altitude_range[1].v
       + ((n - 1) * (altitude_range[2].v - altitude_range[1].v)) \div (NumClimb - 1))

\* The arc sine of a fixed-point integer of [0, SCALE]:
\* pi/2 - sqrt(1 - x) (1.571 - 0.212 x + 0.074 x^2 - 0.019 x^3), to 1e-3.
ArcsinFix(x) ==
    1571 - MulFix(SqrtFix(SCALE - x), 1571 + MulFix(x, MulFix(x, 74 + MulFix(x, -19)) - 212))

\* numpy.arcsin: nan, with a warning, outside [-1, 1]
np_arcsin(a) ==
    CASE IsExc(a) -> a
      [] a.k # "fin" -> Special("np", "nan")
      [] Abs(a.v) > SCALE -> Special("np", "nan")
      [] OTHER -> Np(Sgn(a.v) * ArcsinFix(Abs(a.v)))

\* numpy.degrees
np_degrees(a) ==
    CASE IsExc(a) -> a
      [] a.k = "fin" -> Np(Sgn(a.v) * ((Abs(a.v) * 180 * SCALE) \div 3142))
      [] OTHER -> Special("np", a.k)

\* v_climb = 1.3 * v_stall at the altitude alt
ClimbSpeed(a, h, alt, weight) ==
    Mul(Py(1300),
        Sqrt(Div(Mul(Mul(Py(2 * SCALE), weight), Py(9810)),
                 Mul(Mul(Call("standard_atmosphere", <<alt>>).density,
                         h.geom[a.geometry].wing_area), a.cl_max))))

\* thrust_required for level flight at v_climb
ThrustRequired(a, h, alt, weight) ==
    LET atm == Call("standard_atmosphere", <<alt>>)
        wing_area == h.geom[a.geometry].wing_area
        v_climb == ClimbSpeed(a, h, alt, weight)
        cl == Div(Mul(Mul(Py(2 * SCALE), weight), Py(9810)),
                  Mul(Mul(atm.density, Sq(v_climb)), wing_area))
        cd == Call("calculate_drag_coefficient", <<a, cl>>)
    IN Mul(Mul(Mul(Mul(Py(500), atm.density), Sq(v_climb)), wing_area), cd)

\* climb_angle = np.degrees(np.arcsin(excess_thrust / (weight * 9.81)))
ClimbAngle(excess_thrust, weight) ==
    np_degrees(np_arcsin(Div(excess_thrust, Mul(weight, Py(9810)))))

\* The body of the loop: the climb rate and angle at the altitude alt.
ClimbSample(a, h, alt, weight, thrust_available) ==
    LET excess_thrust == Sub(thrust_available, ThrustRequired(a, h, alt, weight))
    IN IF Gt(excess_thrust, Py(0))
       THEN [climb_rate |-> Div(Mul(excess_thrust, ClimbSpeed(a, h, alt, weight)),
                                Mul(weight, Py(9810))),
             climb_angle |-> ClimbAngle(excess_thrust, weight)]
       ELSE [climb_rate |-> Py(0), climb_angle |-> Py(0)]

\* max(altitudes)
MaxOf(list) ==
    CHOOSE x \in {list[n] : n \in 1..Len(list)} : \A n \in 1..Len(list) : Le(list[n], x)

\* altitudes[np.where(climb_rates <= 0.508)[0][0]] if any(climb_rates <= 0.508)
\* else max(altitudes)
ServiceCeiling(altitudes, climb_rates) ==
    LET low == {n \in 1..Len(climb_rates) : Le(climb_rates[n], Py(508))}
    IN IF low # {} THEN altitudes[CHOOSE n \in low : \A m \in low : n <= m]
       ELSE MaxOf(altitudes)

calculate_climb_performance(a, h, altitude_range, weight, thrust_available) ==
    LET altitudes == [n \in 1..NumClimb |-> ClimbAltitude(altitude_range, n)]
        samples == [n \in 1..NumClimb |->
                       ClimbSample(a, h, altitudes[n], weight, thrust_available)]
        climb_rates == NpArray([n \in 1..NumClimb |-> samples[n].climb_rate])
    IN [altitudes |-> altitudes,
        climb_rates |-> climb_rates,
        climb_angles |-> NpArray([n \in 1..NumClimb |-> samples[n].climb_angle]),
        service_ceiling |-> ServiceCeiling(altitudes, climb_rates)]

Call(f, args) ==
    CASE f = "__add__" -> float_add(args[1], args[2])
      [] f = "__mul__" -> float_mul(args[1], args[2])
      [] f = "__truediv__" -> float_truediv(args[1], args[2])
      [] f = "__pow__" -> float_pow(args[1], args[2])
      [] f = "np.sqrt" -> np_sqrt(args[1])
      [] f = "np.exp" -> np_exp(args[1])
      [] f = "min" -> py_min(args[1], args[2])
      [] f = "max" -> py_max0(args[1])
      [] f = "np.log" -> np_log(args[1])
      [] f = "standard_atmosphere" -> standard_atmosphere(args[1])
      [] f = "Aircraft" -> AircraftInit(args[1], args[2], args[3], args[4])
      [] f = "calculate_lift_coefficient" -> calculate_lift_coefficient(args[1], args[2])
      [] f = "calculate_drag_coefficient" -> calculate_drag_coefficient(args[1], args[2])
      [] f = "calculate_lift_drag_ratio" -> calculate_lift_drag_ratio(args[1], args[2])
      [] f = "find_optimal_angle_of_attack" -> find_optimal_angle_of_attack(args[1])
      [] f = "analyze_takeoff_performance" ->
            analyze_takeoff_performance(args[1], args[2], args[3])
      [] f = "calculate_range" ->
            calculate_range(args[1], args[2], args[3], args[4], args[5], args[6])
      [] f = "calculate_stall_speed" ->
            calculate_stall_speed(args[1], args[2], args[3], args[4], args[5])
      [] f = "generate_v_n_diagram" ->
            generate_v_n_diagram(args[1], args[2], args[3], args[4])
      [] f = "evaluate" -> evaluate(args[1], args[2], args[3])
      [] f = "create_aircraft_from_variables" ->
            create_aircraft_from_variables(args[1], args[2], args[3], args[4])
      [] f = "objective_function" ->
            objective_function(args[1], args[2], args[3], args[4])
      [] f = "optimize" ->
            OptimizeTail(args[1], args[2], args[3], args[4], args[5], args[6])
      [] f = "calculate_endurance" ->
            calculate_endurance(args[1], args[2], args[3], args[4])
      [] f = "calculate_service_ceiling" ->
            calculate_service_ceiling(args[1], args[2], args[3])
      [] f = "v_stall" -> EnvelopeStallSpeed(args[1], args[2], args[3])
      [] f = "cl_required" -> LiftRequired(args[1], args[2], args[3], args[4])
      [] f = "generate_performance_envelope" ->
            EnvelopeCell(args[1], args[2], args[3], args[4], args[5])
      [] f = "thrust_required" -> ThrustRequired(args[1], args[2], args[3], args[4])
      [] f = "v_climb" -> ClimbSpeed(args[1], args[2], args[3], args[4])
      [] f = "calculate_climb_performance" ->
            calculate_climb_performance(args[1], args[2], args[3], args[4], args[5])

----------------------------------------------------------------------------
(* Bounds and inputs of the model                                          *)

\* At most MaxRegs objectives and constraints are registered in all.
MaxRegs == 2
\* A search evaluates the objective function at most MaxEvals times.
MaxEvals == 2

Geometry(span, area, chord, ar) ==
    [wing_span |-> Py(span), wing_area |-> Py(area), wing_chord |-> Py(chord),
     aspect_ratio |-> Py(ar), sweep_angle |-> Py(0), dihedral_angle |-> Py(3 * SCALE),
     taper_ratio |-> Py(500), thickness_ratio |-> Py(120),
     fuselage_length |-> Py(3 * SCALE), fuselage_diameter |-> Py(500)]

Mass(empty, fuel, payload, mtow) ==
    [empty_weight |-> Py(empty), fuel_capacity |-> Py(fuel),
     payload_capacity |-> Py(payload), max_takeoff_weight |-> Py(mtow)]

\* The base aircraft of a session: a small aircraft (span 4 m, area 2 m2,
\* 2 kg) whose aspect_ratio field is rounded the way the sample airliner's is
\* (10.2 for 35.8 ** 2 / 125 = 10.25), and a degenerate one with no wing area.
BaseGeometries ==
    { Geometry(4000, 2000, 500, 7900),
      Geometry(4000, 0, 500, 8000) }

BaseMass == Mass(1000, 500, 500, 2000)

\* The heap holding only the base aircraft, built by Aircraft("A", g, m).
BaseHeap(g, m) ==
    LET h0 == [geom |-> (1 :> g), mass |-> (1 :> m), ac |-> << >>]
    IN [h0 EXCEPT !.ac = (1 :> Call("Aircraft", <<<<"A">>, 1, 1, h0>>))]

Objective(cls, weight) == [cls |-> cls, weight |-> Py(weight)]
Constraint(cls, limit, altitude) ==
    [cls |-> cls, limit |-> Py(limit), altitude |-> Py(altitude)]

\* The objectives and constraints a session registers.
ObjChoices ==
    { Objective("MaximizeLiftToDrag", 1000), Objective("DesignObjective", 1000) }

ConChoices ==
    { Constraint("StallSpeedConstraint", 2000, 0),
      Constraint("WingLoadingConstraint", 5000, 0) }

Var(name, lo, hi) == [name |-> name, lo |-> Py(lo), hi |-> Py(hi)]

\* The mappings a session calls set_design_variables with.
VarChoices ==
    { << >>,
      << Var("wing_area", -2000, 2000) >>,
      << Var("max_takeoff_weight", 2000, 4000), Var("wing_area", 2000, 4000) >>,
      << Var("wing_span", 2000, 4000), Var("wing_area", 2000, 4000) >>,
      << Var("sweep_angle", 0, 2000), Var("cruise_speed", 0, 2000) >> }

\* The values of a design vector's entries.
XValues == { -2000, 0, 2000, 4000 }

\* The design vectors a session calls objective_function with directly: numpy
\* arrays (as the search passes) or Python lists.
XVectors ==
    { << >>, << Np(0) >>, << Np(2000) >>, << Py(0) >>, << Np(2000), Np(4000) >> }

\* The points of the box of bounds a search may evaluate (numpy arrays).
RECURSIVE BoxPoints(_)
BoxPoints(bnds) ==
    IF bnds = << >> THEN { << >> }
    ELSE LET last == bnds[Len(bnds)]
         IN { Append(p, Np(a)) :
                p \in BoxPoints(SubSeq(bnds, 1, Len(bnds) - 1)),
                a \in { b \in XValues : last[1].v <= b /\ b <= last[2].v } }

\* x0 of the L-BFGS-B branch: the midpoint of the bounds.
Midpoint(bnds) ==
    [i \in 1..Len(bnds) |-> Np(DivFix(bnds[i][1].v + bnds[i][2].v, 2 * SCALE))]

----------------------------------------------------------------------------
(* The state: one DesignOptimizer, the heap and the caller's view          *)

VARIABLES
    objectives,         \* self.objectives
    constraints,        \* self.constraints
    design_variables,   \* self.design_variables
    bounds,             \* self.bounds
    heap,               \* the Aircraft, AircraftGeometry and AircraftMass objects
    pc,                 \* "idle", or "search" while optimize runs its search
    search,             \* the running search: method, evaluations, incumbent
    ret,                \* how the last call ended: returned value or exception
    pre,                \* the optimizer and the heap as the last call found them
    runs,               \* the last two differential-evolution runs of optimize that
                        \* returned under the present objectives, constraints and
                        \* design variables: what each returned, and the state its
                        \* random generator was left in
    frame               \* the loop indices i, j of the generate_performance_envelope
                        \* call in progress

vars == <<objectives, constraints, design_variables, bounds, heap, pc, search, ret, pre, runs,
          frame>>

\* The identity of the base aircraft (and of its geometry and of its mass).
base_aircraft == 1

Self == [objectives |-> objectives, constraints |-> constraints,
         design_variables |-> design_variables, bounds |-> bounds]

\* The heap once the candidates of earlier calls, which nothing refers to any
\* more, are reclaimed: the base aircraft's objects stay.
Collect(h) ==
    [geom |-> (base_aircraft :> h.geom[base_aircraft]),
     mass |-> (base_aircraft :> h.mass[base_aircraft]),
     ac |-> (base_aircraft :> h.ac[base_aircraft])]

\* seed = 42 of the call of differential_evolution.
Seed == 42

\* No generate_performance_envelope call is in progress.
NoFrame == [i |-> 0, j |-> 0]

\* The generator left to continue from where the runs before left it.
GeneratorContinued(seed, left) == left

\* The generator differential_evolution draws from: a new one made from the
\* seed, whatever state an earlier run left its own in.
check_random_state(seed, left) == seed

\* The state the generator of the last run was left in (0 before any run).
GeneratorLeft(rs) == IF rs = << >> THEN 0 ELSE rs[Len(rs)].rng

\* The next state of a generator.
NextRandom(rng) == (rng * 5 + 3) % 16

\* The r-th (modulo its size) smallest element of a non-empty set of integers.
RECURSIVE Pick(_, _)
Pick(S, r) ==
    LET least == CHOOSE a \in S : \A b \in S : a <= b
    IN IF r % Cardinality(S) = 0 THEN least
       ELSE Pick(S \ {least}, (r % Cardinality(S)) - 1)

\* The point of the box of bounds a generator in state rng draws (a numpy array).
Trial(rng, bnds) ==
    [i \in 1..Len(bnds) |->
        Np(Pick({ b \in XValues : bnds[i][1].v <= b /\ b <= bnds[i][2].v }, rng + i))]

\* The last of the runs kept, to be followed by a new one.
Recent(rs) == IF rs = << >> THEN << >> ELSE <<rs[Len(rs)]>>

NoSearch == [method |-> "none", nevals |-> 0, x |-> << >>, fun |-> Py(0), rng |-> 0]

Ret(op, raised, value, xs, cand, nevals, result) ==
    [op |-> op, raised |-> raised, value |-> value, xs |-> xs, cand |-> cand,
     nevals |-> nevals, result |-> result]

Init ==
    /\ objectives = << >>
    /\ constraints = << >>
    /\ design_variables = << >>
    /\ bounds = << >>
    /\ \E g \in BaseGeometries : heap = BaseHeap(g, BaseMass)
    /\ pc = "idle"
    /\ search = NoSearch
    /\ ret = Ret("__init__", "none", Py(0), << >>, 0, 0, NoResult)
    /\ pre = [self |-> Self, heap |-> heap]
    /\ runs = << >>
    /\ frame = NoFrame

add_objective(objective) ==
    /\ pc = "idle"
    /\ Len(objectives) + Len(constraints) < MaxRegs
    /\ objectives' = Append(objectives, objective)
    /\ heap' = Collect(heap)
    /\ ret' = Ret("add_objective", "none", Py(0), << >>, 0, 0, NoResult)
    /\ pre' = [self |-> Self, heap |-> Collect(heap)]
    /\ runs' = << >>
    /\ UNCHANGED <<constraints, design_variables, bounds, pc, search, frame>>

add_constraint(constraint) ==
    /\ pc = "idle"
    /\ Len(objectives) + Len(constraints) < MaxRegs
    /\ constraints' = Append(constraints, constraint)
    /\ heap' = Collect(heap)
    /\ ret' = Ret("add_constraint", "none", Py(0), << >>, 0, 0, NoResult)
    /\ pre' = [self |-> Self, heap |-> Collect(heap)]
    /\ runs' = << >>
    /\ UNCHANGED <<objectives, design_variables, bounds, pc, search, frame>>

set_design_variables(variables) ==
    /\ pc = "idle"
    /\ design_variables' = variables
    /\ bounds' = [i \in 1..Len(variables) |-> <<variables[i].lo, variables[i].hi>>]
    /\ heap' = Collect(heap)
    /\ ret' = Ret("set_design_variables", "none", Py(0), << >>, 0, 0, NoResult)
    /\ pre' = [self |-> Self, heap |-> Collect(heap)]
    /\ runs' = << >>
    /\ UNCHANGED <<objectives, constraints, pc, search, frame>>

\* A direct call of objective_function(x, base_aircraft).
call_objective_function(xs) ==
    /\ pc = "idle"
    /\ \E r \in {Call("objective_function", <<Self, xs, base_aircraft, Collect(heap)>>)} :
          /\ heap' = r.heap
          /\ ret' = Ret("objective_function", r.raised, r.value, xs, r.cand, 1, NoResult)
    /\ pre' = [self |-> Self, heap |-> Collect(heap)]
    /\ UNCHANGED <<objectives, constraints, design_variables, bounds, pc, search, runs, frame>>

\* optimize without its first statement.
CheckDesignVariablesSkipped(variables) == "none"

\* The first statement of optimize, "if not self.design_variables: raise
\* ValueError": the exception raised ("none" if none).
CheckDesignVariables(variables) ==
    IF Len(variables) = 0 THEN "ValueError" ELSE "none"

\* optimize(base_aircraft, method) with no design variables: ValueError.
optimize_invalid(method) ==
    /\ pc = "idle"
    /\ CheckDesignVariables(design_variables) # "none"
    /\ heap' = Collect(heap)
    /\ ret' = Ret("optimize", "ValueError", Py(0), << >>, 0, 0, NoResult)
    /\ pre' = [self |-> Self, heap |-> Collect(heap)]
    /\ UNCHANGED <<objectives, constraints, design_variables, bounds, pc, search, runs, frame>>

\* optimize(base_aircraft, method) up to the call of the search.
optimize_start(method) ==
    /\ pc = "idle"
    /\ CheckDesignVariables(design_variables) = "none"
    /\ pc' = "search"
    /\ search' = [NoSearch EXCEPT
                     !.method = method,
                     !.rng = IF method = "differential_evolution"
                             THEN check_random_state(Seed, GeneratorLeft(runs))
                             ELSE 0]
    /\ heap' = Collect(heap)
    /\ ret' = Ret("optimize", "running", Py(0), << >>, 0, 0, NoResult)
    /\ pre' = [self |-> Self, heap |-> Collect(heap)]
    /\ UNCHANGED <<objectives, constraints, design_variables, bounds, runs, frame>>

\* One evaluation of self.objective_function by the search: differential
\* evolution evaluates the point its generator draws, L-BFGS-B starts at x0
\* and goes on at any point of the box of bounds.  The search keeps the best
\* point it saw.
search_step(xs) ==
    /\ pc = "search"
    /\ search.nevals < MaxEvals
    /\ search.method = "minimize" /\ search.nevals = 0 => xs = Midpoint(bounds)
    /\ search.method = "differential_evolution" => xs = Trial(search.rng, bounds)
    /\ \E r \in {Call("objective_function", <<Self, xs, base_aircraft, Collect(heap)>>)} :
       LET better == search.nevals = 0 \/ Lt(r.value, search.fun)
       IN /\ heap' = r.heap
          /\ search' = [search EXCEPT !.nevals = @ + 1,
                                      !.x = IF better THEN xs ELSE @,
                                      !.fun = IF better THEN r.value ELSE @,
                                      !.rng = NextRandom(@)]
          /\ ret' = [ret EXCEPT !.raised = IF r.raised = "none" THEN @ ELSE r.raised,
                                !.nevals = @ + 1]
    /\ UNCHANGED <<objectives, constraints, design_variables, bounds, pc, pre, runs, frame>>

\* The search returns, and optimize with it: L-BFGS-B after any number of
\* evaluations, differential evolution when its budget of evaluations
\* (popsize and maxiter are fixed) is used up.
optimize_finish(success) ==
    /\ pc = "search"
    /\ search.nevals >= 1
    /\ search.method = "differential_evolution" => search.nevals = MaxEvals
    /\ \E t \in {Call("optimize", <<Self, base_aircraft, search.x, search.fun,
                                     success, Collect(heap)>>)} :
          /\ heap' = t.heap
          /\ ret' = [ret EXCEPT !.raised = t.raised, !.result = t.result,
                                !.xs = search.x, !.value = search.fun,
                                !.cand = t.result.optimized_aircraft]
          /\ runs' = IF search.method = "differential_evolution" /\ t.raised = "none"
                      THEN Recent(runs) \o <<[design_variables |-> t.result.design_variables,
                                              objective_value |-> t.result.objective_value,
                                              rng |-> search.rng]>>
                      ELSE runs
    /\ pc' = "idle"
    /\ search' = NoSearch
    /\ UNCHANGED <<objectives, constraints, design_variables, bounds, pre, frame>>

Next ==
    \/ \E objective \in ObjChoices : add_objective(objective)
    \/ \E constraint \in ConChoices : add_constraint(constraint)
    \/ \E variables \in VarChoices : set_design_variables(variables)
    \/ \E xs \in XVectors : call_objective_function(xs)
    \/ \E method \in {"differential_evolution", "minimize"} : optimize_invalid(method)
    \/ \E method \in {"differential_evolution", "minimize"} : optimize_start(method)
    \/ \E xs \in BoxPoints(bounds) \cup {Midpoint(bounds)} : search_step(xs)
    \/ \E success \in BOOLEAN : optimize_finish(success)

Spec == Init /\ [][Next]_vars

----------------------------------------------------------------------------
(* Calls on one aircraft: constraint.evaluate(aircraft) and                *)
(* FlightEnvelope(aircraft).generate_v_n_diagram(altitude, weight)         *)

\* The aircraft: wing areas of 1, 2 and 4 m2, maximum takeoff weights of -2,
\* 0, 2 and 4 kg, and cl_max as the constructor sets it or as
\* create_sample_aircraft sets the fighter's.
EvalAreas == {1000, 2000, 4000}
EvalWeights == {-2000, 0, 2000, 4000}
EvalClMax == {1600, 1800}

EvalHeap(area, mtow, cl_max) ==
    LET h == BaseHeap(Geometry(4000, area, DivFix(area, 4000), DivFix(16000, area)),
                      Mass(1000, 500, 500, mtow))
    IN [h EXCEPT !.ac[base_aircraft].cl_max = Py(cl_max)]

\* The constraints evaluated and the arguments of generate_v_n_diagram.
EvalConstraints ==
    { Constraint("StallSpeedConstraint", limit, altitude) :
        limit \in {2000, 4000}, altitude \in {0, 5000 * SCALE} }
    \cup { Constraint("TakeoffDistanceConstraint", limit, 0) : limit \in {250 * SCALE, 255 * SCALE} }
    \cup { Constraint("WingLoadingConstraint", limit, 0) : limit \in {5000, 9810} }

VnArguments ==
    { <<Py(altitude), weight>> :
        altitude \in {0, 5000 * SCALE}, weight \in {None, Py(1000), Py(4000)} }

RetOf(op, arg, raised, value) ==
    [op |-> op, arg |-> arg, raised |-> raised, value |-> value, xs |-> << >>,
     cand |-> 0, nevals |-> 0, result |-> NoResult]

InitEvaluate ==
    /\ objectives = << >>
    /\ constraints = << >>
    /\ design_variables = << >>
    /\ bounds = << >>
    /\ \E area \in EvalAreas, mtow \in EvalWeights, cl_max \in EvalClMax :
            heap = EvalHeap(area, mtow, cl_max)
    /\ pc = "idle"
    /\ search = NoSearch
    /\ ret = Ret("__init__", "none", Py(0), << >>, 0, 0, NoResult)
    /\ pre = [self |-> Self, heap |-> heap]
    /\ runs = << >>
    /\ frame = NoFrame

\* constraint.evaluate(aircraft)
evaluate_constraint(constraint) ==
    /\ \E r \in {Call("evaluate", <<constraint, heap.ac[base_aircraft], heap>>)} :
          ret' = RetOf("evaluate", constraint, IF IsExc(r) THEN r.k ELSE "none", r)
    /\ pre' = [self |-> Self, heap |-> heap]
    /\ UNCHANGED <<objectives, constraints, design_variables, bounds, heap, pc, search, runs, frame>>

\* FlightEnvelope(aircraft).generate_v_n_diagram(altitude, weight)
call_generate_v_n_diagram(altitude, weight) ==
    /\ \E r \in {Call("generate_v_n_diagram",
                       <<heap.ac[base_aircraft], heap, altitude, weight>>)} :
          ret' = RetOf("generate_v_n_diagram", <<altitude, weight>>, r.exc,
                       [velocities |-> r.velocities, load_factors |-> r.load_factors])
    /\ pre' = [self |-> Self, heap |-> heap]
    /\ UNCHANGED <<objectives, constraints, design_variables, bounds, heap, pc, search, runs, frame>>

\* The runway lengths analyze_takeoff_performance is called with, in m.
RunwayLengths == {250, 500}

\* PerformanceAnalyzer(aircraft).analyze_takeoff_performance(runway_length)
call_analyze_takeoff_performance(runway_length) ==
    /\ \E r \in {Call("analyze_takeoff_performance",
                       <<heap.ac[base_aircraft], heap, runway_length>>)} :
          ret' = RetOf("analyze_takeoff_performance", <<runway_length>>, r.exc, r)
    /\ pre' = [self |-> Self, heap |-> heap]
    /\ UNCHANGED <<objectives, constraints, design_variables, bounds, heap, pc, search, runs, frame>>

NextEvaluate ==
    \/ \E constraint \in EvalConstraints : evaluate_constraint(constraint)
    \/ \E arguments \in VnArguments : call_generate_v_n_diagram(arguments[1], arguments[2])
    \/ \E runway_length \in RunwayLengths :
          call_analyze_takeoff_performance(Py(runway_length * SCALE))

SpecEvaluate == InitEvaluate /\ [][NextEvaluate]_vars

----------------------------------------------------------------------------
(* Properties of the V-n diagram and of the constraints                    *)

TheAircraft == heap.ac[base_aircraft]
TheWingArea == heap.geom[TheAircraft.geometry].wing_area
TheMTOW == heap.mass[TheAircraft.mass].max_takeoff_weight

\* The weight generate_v_n_diagram was called for.
VnWeight == IF ret.arg[2] = None THEN TheMTOW ELSE ret.arg[2]

\* generate_v_n_diagram has returned for an aircraft of positive wing area,
\* cl_max and weight.
VnReturned ==
    /\ ret.op = "generate_v_n_diagram"
    /\ Gt(TheWingArea, Py(0)) /\ Gt(TheAircraft.cl_max, Py(0)) /\ Gt(VnWeight, Py(0))

Last(list) == list[Len(list)]

\* C1 as stated: the polyline is closed, its first velocity is 0, its last
\* velocity is 0 and its last load factor is 0.
C1_StartsAndEndsAtZero ==
    VnReturned =>
        /\ ret.raised = "none"
        /\ NumEq(ret.value.velocities[1], Py(0))
        /\ NumEq(Last(ret.value.velocities), Py(0))
        /\ NumEq(Last(ret.value.load_factors), Py(0))

\* C1 as amended: the polyline ends at velocity 0 and load factor 0, and it
\* starts on the positive stall curve, at the first sample that is not below
\* the stall speed, which is positive.
C1_EndsAtZeroStartsAtStall ==
    VnReturned =>
        /\ ret.raised = "none"
        /\ Len(ret.value.velocities) = Len(ret.value.load_factors)
        /\ NumEq(Last(ret.value.velocities), Py(0))
        /\ NumEq(Last(ret.value.load_factors), Py(0))
        /\ \A v_stall \in {Call("calculate_stall_speed",
                <<TheAircraft, heap, ret.arg[1], VnWeight, Py(1 * SCALE)>>)} :
              /\ Gt(v_stall, Py(0))
              /\ Ge(ret.value.velocities[1], v_stall)

\* A diagram for the maximum takeoff weight with points on the positive
\* stall curve ahead of the five of the limit lines.
C1_Witness ==
    /\ VnReturned
    /\ ret.arg[2] = None
    /\ Len(ret.value.velocities) > 5
    /\ Gt(ret.value.velocities[1], Py(0))

\* The quantity a constraint bounds: the stall speed at MTOW, the total
\* takeoff distance, or the wing loading MTOW * 9.81 / wing_area.
Constrained(c) ==
    CASE c.cls = "StallSpeedConstraint" ->
            Call("calculate_stall_speed",
                 <<TheAircraft, heap, c.altitude, TheMTOW, Py(1 * SCALE)>>)
      [] c.cls = "TakeoffDistanceConstraint" ->
            Call("analyze_takeoff_performance",
                 <<TheAircraft, heap, Mul(c.limit, Py(2 * SCALE))>>).total_distance
      [] OTHER -> Div(Mul(TheMTOW, Py(9810)), TheWingArea)

\* The value returned is 0 when the quantity q is within the limit, and the
\* excess of q over the limit otherwise.
ViolationOf(q, limit, value) ==
    /\ Ge(value, Py(0))
    /\ NumEq(value, Py(0)) <=> Le(q, limit)
    /\ ~Le(q, limit) => NumEq(value, Sub(q, limit))

EvaluateReturned ==
    /\ ret.op = "evaluate"
    /\ Gt(TheWingArea, Py(0)) /\ Gt(TheAircraft.cl_max, Py(0))

\* C10 as stated: for every aircraft of positive wing area and cl_max, each
\* constraint evaluates to a value >= 0, to 0 exactly when the constrained
\* quantity is within its limit, and to the excess over the limit otherwise.
C10_ViolationIsExcess ==
    EvaluateReturned =>
        /\ ret.raised = "none"
        /\ ViolationOf(Constrained(ret.arg), ret.arg.limit, ret.value)

\* C10 as amended: the same for every aircraft that, besides, has a maximum
\* takeoff weight that is not negative.
C10_ViolationIsExcessOfWeight ==
    (EvaluateReturned /\ Ge(TheMTOW, Py(0))) =>
        /\ ret.raised = "none"
        /\ ViolationOf(Constrained(ret.arg), ret.arg.limit, ret.value)

\* A stall speed constraint has been evaluated on an aircraft that exceeds
\* its limit.
C10_Witness ==
    /\ EvaluateReturned
    /\ Gt(TheMTOW, Py(0))
    /\ ret.arg.cls = "StallSpeedConstraint"
    /\ Gt(ret.value, Py(0))

----------------------------------------------------------------------------
(* Properties of optimize                                                  *)

\* C2: once design variables have been set, optimize never raises, whatever
\* the base aircraft, the objectives, the constraints and the outcome of the
\* search are.
C2_OptimizeNeverRaises ==
    (ret.op = "optimize" /\ pre.self.design_variables # << >>)
        => ret.raised \in {"none", "running"}

\* C3: optimize with an empty design-variable mapping raises (ValueError)
\* before any search step or objective evaluation, and leaves the objectives,
\* constraints, design variables and bounds of the optimizer as they were.
C3_EmptyVariablesRaise ==
    (ret.op = "optimize" /\ pre.self.design_variables = << >>)
        => /\ ret.raised = "ValueError"
           /\ pc = "idle"
           /\ search = NoSearch
           /\ ret.nevals = 0
           /\ DOMAIN heap.ac = {base_aircraft}
           /\ Self = pre.self

\* optimize has raised ValueError on an optimizer that holds an objective and
\* a constraint but no design variable.
C3_Witness ==
    /\ ret.op = "optimize"
    /\ ret.raised = "ValueError"
    /\ pre.self.design_variables = << >>
    /\ objectives # << >>
    /\ constraints # << >>

----------------------------------------------------------------------------
(* Properties of objective_function                                        *)

\* Whether the candidate of design vector xs is built, and if so whether one
\* of the registered objectives or constraints raises on it.
ConstructionRaises(self, xs, h) ==
    \E c \in {Call("create_aircraft_from_variables",
                   <<self.design_variables, xs, base_aircraft, h>>)} : c.exc # "none"

EvaluationRaises(self, cand, h) ==
    \E o \in {self.objectives[i] : i \in 1..Len(self.objectives)}
            \cup {self.constraints[i] : i \in 1..Len(self.constraints)} :
        IsExc(Call("evaluate", <<o, h.ac[cand], h>>))

\* C4: if the construction of the candidate or the evaluation of an objective
\* or of a constraint raises, objective_function returns exactly 1e6 and no
\* exception reaches the caller, be it the user or the search.
C4_ExceptionsBecomePenalty ==
    /\ pc = "search" => ret.raised = "running"
    /\ ret.op = "objective_function" =>
          /\ ret.raised = "none"
          /\ (\/ ConstructionRaises(pre.self, ret.xs, pre.heap)
              \/ ret.cand # 0 /\ EvaluationRaises(pre.self, ret.cand, heap))
                => ret.value = LargePenalty

\* objective_function has returned 1e6 for a design vector whose candidate
\* could not be built.
C4_Witness ==
    /\ ret.op = "objective_function"
    /\ ret.value = LargePenalty
    /\ ret.raised = "none"
    /\ ret.xs # << >>
    /\ ConstructionRaises(pre.self, ret.xs, pre.heap)

\* The index of the design variable wing_area in a design vector is i.
IsWingArea(i) == i \in 1..Len(design_variables) /\ design_variables[i].name = "wing_area"

\* C5: during the search, a candidate whose wing_area design variable is zero
\* or negative makes objective_function return 1e6.
C5_DegenerateAreaPenalised ==
    (/\ pc = "search"
     /\ objectives # << >>
     /\ search.nevals > 0
     /\ \E i \in 1..Len(search.x) : IsWingArea(i) /\ search.x[i].v <= 0)
        => NumEq(search.fun, LargePenalty)

\* C8: an evaluation of objective_function and a call of optimize modify
\* nothing that was passed in: the base aircraft, its geometry and its mass
\* are as the call found them, so is the optimizer, and every candidate is a
\* new Aircraft with a geometry and a mass of its own.
C8_NothingModifiedInPlace ==
    ret.op \in {"objective_function", "optimize"} =>
        /\ heap.ac[base_aircraft] = pre.heap.ac[base_aircraft]
        /\ heap.geom[heap.ac[base_aircraft].geometry]
                = pre.heap.geom[pre.heap.ac[base_aircraft].geometry]
        /\ heap.mass[heap.ac[base_aircraft].mass]
                = pre.heap.mass[pre.heap.ac[base_aircraft].mass]
        /\ Self = pre.self
        /\ \A i \in DOMAIN heap.ac \ {base_aircraft} :
              /\ heap.ac[i].geometry \notin {heap.ac[j].geometry : j \in DOMAIN heap.ac \ {i}}
              /\ heap.ac[i].mass \notin {heap.ac[j].mass : j \in DOMAIN heap.ac \ {i}}
              /\ heap.ac[i].geometry \notin DOMAIN pre.heap.geom
              /\ heap.ac[i].mass \notin DOMAIN pre.heap.mass

\* optimize has returned a result whose optimized aircraft differs from the
\* base aircraft in a design variable.
C8_Witness ==
    /\ ret.op = "optimize"
    /\ ret.raised = "none"
    /\ ret.result.optimized_aircraft \in DOMAIN heap.ac \ {base_aircraft}
    /\ heap.geom[heap.ac[ret.result.optimized_aircraft].geometry]
            # heap.geom[heap.ac[base_aircraft].geometry]

----------------------------------------------------------------------------
(* Properties of create_aircraft_from_variables                            *)

\* aspect_ratio and wing_chord of geometry g are span ** 2 / area and area / span.
Rederived(g) ==
    /\ g.aspect_ratio = Div(Sq(g.wing_span), g.wing_area)
    /\ g.wing_chord = Div(g.wing_area, g.wing_span)

\* The names of the design variables of the last call.
Names == {pre.self.design_variables[i].name : i \in 1..Len(pre.self.design_variables)}

CandGeometry == heap.geom[heap.ac[ret.cand].geometry]
CandMass == heap.mass[heap.ac[ret.cand].mass]
BaseGeometry == heap.geom[heap.ac[base_aircraft].geometry]
BaseOfMass == heap.mass[heap.ac[base_aircraft].mass]

\* Every field but aspect_ratio and wing_chord that no design variable names
\* is as in the base aircraft.
OthersKept ==
    /\ \A f \in DOMAIN CandGeometry \ (Names \cup {"aspect_ratio", "wing_chord"}) :
            CandGeometry[f] = BaseGeometry[f]
    /\ \A f \in DOMAIN CandMass \ Names : CandMass[f] = BaseOfMass[f]

C7_CandidateConsistent ==
    \A i \in DOMAIN heap.ac \ {base_aircraft} :
        \A a \in {heap.ac[i]} : \A g \in {heap.geom[a.geometry]} :
            (g.wing_span.v # 0 /\ g.wing_area.v # 0) =>
                /\ Rederived(g)
                /\ a.k = Div(Py(1 * SCALE), Mul(Mul(PI, g.aspect_ratio), Py(800)))
                /\ a.cl_alpha = Div(Mul(Py(2 * SCALE), PI),
                                    Add(Py(1 * SCALE), Div(Py(2 * SCALE), g.aspect_ratio)))

\* A candidate whose wing_area differs from the base aircraft's, built from a
\* base aircraft whose aspect_ratio field is not span ** 2 / area.
C7_Witness ==
    /\ ret.op = "objective_function"
    /\ ret.cand # 0
    /\ ~Rederived(BaseGeometry)
    /\ IsFin(CandGeometry.wing_area) /\ CandGeometry.wing_area.v > 0
    /\ CandGeometry.wing_area # BaseGeometry.wing_area

\* The sum over objs[1..n] of weight * evaluate(a), and the sum over
\* cons[1..n] of 1000 * evaluate(a) ** 2.
RECURSIVE ObjectiveSum(_, _, _, _)
ObjectiveSum(objs, n, a, h) ==
    IF n = 0 THEN Py(0)
    ELSE Add(ObjectiveSum(objs, n - 1, a, h),
             Mul(objs[n].weight, Call("evaluate", <<objs[n], a, h>>)))

RECURSIVE PenaltySum(_, _, _, _)
PenaltySum(cons, n, a, h) ==
    IF n = 0 THEN Py(0)
    ELSE Add(PenaltySum(cons, n - 1, a, h),
             Mul(Py(1000 * SCALE), Sq(Call("evaluate", <<cons[n], a, h>>))))

AllSatisfied(cons, a, h) ==
    \A i \in 1..Len(cons) : NumEq(Call("evaluate", <<cons[i], a, h>>), Py(0))

\* C9: when no evaluation raises, objective_function returns the sum of
\* weight * evaluate over the objectives plus the sum of 1000 * evaluate ** 2
\* over the constraints; with every constraint at violation 0 that is the
\* weighted sum of the objectives alone.
C9_ValueIsWeightedSum ==
    (/\ ret.op = "objective_function"
     /\ ret.cand # 0
     /\ ~EvaluationRaises(pre.self, ret.cand, heap)) =>
        \A total \in {ObjectiveSum(objectives, Len(objectives), heap.ac[ret.cand], heap)} :
            /\ ret.value = Add(total, PenaltySum(constraints, Len(constraints),
                                                 heap.ac[ret.cand], heap))
            /\ AllSatisfied(constraints, heap.ac[ret.cand], heap)
                    => NumEq(ret.value, total)

\* objective_function has returned for an optimizer with an objective and a
\* constraint the candidate satisfies.
C9_Witness ==
    /\ ret.op = "objective_function"
    /\ ret.cand # 0
    /\ objectives # << >>
    /\ constraints # << >>
    /\ ~EvaluationRaises(pre.self, ret.cand, heap)
    /\ AllSatisfied(constraints, heap.ac[ret.cand], heap)
    /\ IsFin(ret.value) /\ ret.value.v # 0
----------------------------------------------------------------------------
(* Calls of the analyses on one aircraft: objective.evaluate(aircraft),    *)
(* the methods of Aircraft and of PerformanceAnalyzer, calculate_stall_speed *)
(* and standard_atmosphere                                                 *)

\* An aircraft whose cd0 and cl_max are set after its construction, the way
\* create_sample_aircraft sets the fighter's.
AnalysisHeap(g, m, cd0, cl_max) ==
    [BaseHeap(g, m) EXCEPT !.ac[base_aircraft].cd0 = Py(cd0),
                           !.ac[base_aircraft].cl_max = Py(cl_max)]

\* The aircraft analysed: the sample airliner and the sample fighter of
\* create_sample_aircraft, a small aircraft (span 4 m, area 2 m2, 2 kg), the
\* same with no weight, and the same with a cl_max of zero.
AnalysisHeaps ==
    { AnalysisHeap(Geometry(35800, 125000, 3500, 10200),
                   Mass(41000 * SCALE, 20000 * SCALE, 18000 * SCALE, 79000 * SCALE), 25, 1600),
      AnalysisHeap(Geometry(9960, 27900, 3200, 3600),
                   Mass(8570 * SCALE, 3200 * SCALE, 2400 * SCALE, 19200 * SCALE), 18, 1800),
      AnalysisHeap(Geometry(4000, 2000, 500, 8000), Mass(1000, 500, 500, 2000), 25, 1600),
      AnalysisHeap(Geometry(4000, 2000, 500, 8000), Mass(1000, 500, 500, 0), 25, 1600),
      AnalysisHeap(Geometry(4000, 2000, 500, 8000), Mass(1000, 500, 500, 2000), 25, 0) }

\* MaximizeRange(cruise_altitude = 10000, cruise_speed, fuel_fraction)
RangeObjective(cruise_speed, fuel_fraction) ==
    [cls |-> "MaximizeRange", weight |-> Py(1 * SCALE),
     cruise_altitude |-> Py(10000 * SCALE), cruise_speed |-> Py(cruise_speed),
     fuel_fraction |-> Py(fuel_fraction)]

\* The objectives evaluated: cruise speeds of -1, 0, 1 and 2 m/s and fuel
\* fractions of 0.25 and 0.5.
EvalObjectives ==
    { Objective("MaximizeLiftToDrag", 1 * SCALE) }
    \cup { RangeObjective(cruise_speed, fuel_fraction) :
             cruise_speed \in {-1000, 0, 1000, 2000}, fuel_fraction \in {250, 500} }

InitAnalysis ==
    /\ objectives = << >>
    /\ constraints = << >>
    /\ design_variables = << >>
    /\ bounds = << >>
    /\ heap \in AnalysisHeaps
    /\ pc = "idle"
    /\ search = NoSearch
    /\ ret = Ret("__init__", "none", Py(0), << >>, 0, 0, NoResult)
    /\ pre = [self |-> Self, heap |-> heap]
    /\ runs = << >>
    /\ frame = NoFrame

\* objective.evaluate(aircraft)
evaluate_objective(objective) ==
    /\ \E r \in {Call("evaluate", <<objective, heap.ac[base_aircraft], heap>>)} :
          ret' = RetOf("evaluate", objective, IF IsExc(r) THEN r.k ELSE "none", r)
    /\ pre' = [self |-> Self, heap |-> heap]
    /\ UNCHANGED <<objectives, constraints, design_variables, bounds, heap, pc, search, runs, frame>>

\* The arguments of calculate_range: cruise speeds of 0, 1 and 2 m/s, a fuel
\* weight of so many quarters of the maximum takeoff weight, the default
\* specific fuel consumption or 1e-4.
RangeSpeeds == {0, 1000, 2000}
FuelQuarters == {0, 250, 500, 750, 1000}
WeightShare(max_takeoff_weight, quarter) == Py(MulFix(max_takeoff_weight.v, quarter))
RangeSfcs == {DefaultSfc, [num |-> 1, den |-> 10000]}

\* analyzer.calculate_range(cruise_altitude, cruise_speed, fuel_weight, sfc)
call_calculate_range(cruise_altitude, cruise_speed, fuel_weight, sfc) ==
    /\ \E r \in {Call("calculate_range", <<heap.ac[base_aircraft], heap, cruise_altitude,
                                             cruise_speed, fuel_weight, sfc>>)} :
          ret' = RetOf("calculate_range", <<cruise_altitude, cruise_speed, fuel_weight, sfc>>,
                       IF IsExc(r) THEN r.k ELSE "none", r)
    /\ pre' = [self |-> Self, heap |-> heap]
    /\ UNCHANGED <<objectives, constraints, design_variables, bounds, heap, pc, search, runs, frame>>

\* The arguments of calculate_stall_speed: altitudes in m, and weights of 1/2,
\* 3/4 and the whole of the maximum takeoff weight.
StallAltitudes == {0, 5000, 11000}
StallWeights == {500, 750, 1000}

\* envelope.calculate_stall_speed(altitude, weight), load_factor = 1.0
call_calculate_stall_speed(altitude, weight) ==
    /\ \E r \in {Call("calculate_stall_speed", <<heap.ac[base_aircraft], heap, altitude,
                                                  weight, Py(SCALE)>>)} :
          ret' = RetOf("calculate_stall_speed", <<altitude, weight, Py(SCALE)>>,
                       IF IsExc(r) THEN r.k ELSE "none", r)
    /\ pre' = [self |-> Self, heap |-> heap]
    /\ UNCHANGED <<objectives, constraints, design_variables, bounds, heap, pc, search, runs, frame>>

\* The altitudes standard_atmosphere is called with, in m.
AtmosphereAltitudes == {0, 5000, 10999, 11000, 11001, 12000, 15000, 20000}

\* AtmosphericConditions.standard_atmosphere(altitude)
call_standard_atmosphere(altitude) ==
    /\ \E r \in {Call("standard_atmosphere", <<altitude>>)} :
          ret' = RetOf("standard_atmosphere", <<altitude>>, "none", r)
    /\ pre' = [self |-> Self, heap |-> heap]
    /\ UNCHANGED <<objectives, constraints, design_variables, bounds, heap, pc, search, runs, frame>>

NextAnalysis ==
    \/ \E objective \in EvalObjectives : evaluate_objective(objective)
    \/ \E cruise_speed \in RangeSpeeds, quarter \in FuelQuarters, sfc \in RangeSfcs :
          call_calculate_range(Py(10000 * SCALE), Py(cruise_speed),
                               WeightShare(heap.mass[heap.ac[base_aircraft].mass].max_takeoff_weight,
                                          quarter),
                               sfc)
    \/ \E altitude \in StallAltitudes, weight \in StallWeights :
          call_calculate_stall_speed(Py(altitude * SCALE),
                WeightShare(heap.mass[heap.ac[base_aircraft].mass].max_takeoff_weight, weight))
    \/ \E altitude \in AtmosphereAltitudes : call_standard_atmosphere(Py(altitude * SCALE))

SpecAnalysis == InitAnalysis /\ [][NextAnalysis]_vars

----------------------------------------------------------------------------
(* Properties of the objectives                                            *)

\* The greatest lift-to-drag ratio over the sampled angles of attack.
MaxSampledLD(a) ==
    LET lds == { Call("calculate_lift_drag_ratio", <<a, AngleAt(i)>>) : i \in 0..(NumAngles - 1) }
    IN CHOOSE v \in lds : \A w \in lds : Le(w, v)

\* An objective has been evaluated on an aircraft of positive aspect ratio,
\* cd0 and cl_max, with a fuel fraction strictly between 0 and 1.
ObjectiveEvaluated ==
    /\ ret.op = "evaluate"
    /\ ret.arg.cls \in {"MaximizeRange", "MaximizeLiftToDrag"}
    /\ Gt(heap.geom[TheAircraft.geometry].aspect_ratio, Py(0))
    /\ Gt(TheAircraft.cd0, Py(0)) /\ Gt(TheAircraft.cl_max, Py(0))
    /\ ret.arg.cls = "MaximizeRange" =>
          Gt(ret.arg.fuel_fraction, Py(0)) /\ Lt(ret.arg.fuel_fraction, Py(1 * SCALE))

\* The quantity the objective maximizes: the range, or the greatest sampled L/D.
Maximized ==
    IF ret.arg.cls = "MaximizeRange"
    THEN Call("calculate_range", <<TheAircraft, heap, ret.arg.cruise_altitude,
                                   ret.arg.cruise_speed,
                                   Mul(TheMTOW, ret.arg.fuel_fraction), DefaultSfc>>)
    ELSE MaxSampledLD(TheAircraft)

\* C11 as stated: on every aircraft of positive aspect ratio, cd0 and cl_max,
\* MaximizeRange (fuel fraction in (0, 1)) evaluates to the negated range and
\* MaximizeLiftToDrag to the negated greatest sampled L/D, and both values are
\* negative.
C11_ObjectivesNegative ==
    ObjectiveEvaluated =>
        /\ ret.raised = "none"
        /\ NumEq(ret.value, Neg(Maximized))
        /\ Lt(ret.value, Py(0))

\* C11 as amended: the same for an aircraft that has, besides, a positive
\* maximum takeoff weight, MaximizeRange having a positive cruise speed.
C11_ObjectivesNegativeOfWeight ==
    (/\ ObjectiveEvaluated
     /\ Gt(TheMTOW, Py(0))
     /\ ret.arg.cls = "MaximizeRange" => Gt(ret.arg.cruise_speed, Py(0))) =>
        /\ ret.raised = "none"
        /\ NumEq(ret.value, Neg(Maximized))
        /\ Lt(ret.value, Py(0))

\* MaximizeRange has been evaluated on the airliner and has returned the
\* negated range, which is not zero.
C11_Witness ==
    /\ ObjectiveEvaluated
    /\ ret.arg.cls = "MaximizeRange"
    /\ Gt(ret.arg.cruise_speed, Py(0))
    /\ TheWingArea = Py(125000)
    /\ ret.raised = "none"
    /\ Lt(ret.value, Py(-1 * SCALE))
----------------------------------------------------------------------------
(* Reproducibility of optimize                                             *)

\* C12: two runs of optimize(base_aircraft, 'differential_evolution') with
\* the same base aircraft, objectives, constraints and design variables
\* return the same design_variables and the same objective_value, whatever
\* the calls made between them and the state the first run left.
C12_RunsIdentical ==
    Len(runs) = 2 =>
        /\ runs[1].design_variables = runs[2].design_variables
        /\ runs[1].objective_value = runs[2].objective_value

\* A second run has returned, for an optimizer with an objective, a design
\* point that is not a failed one.
C12_Witness ==
    /\ Len(runs) = 2
    /\ ret.op = "optimize" /\ ret.raised = "none"
    /\ objectives # << >>
    /\ ret.result.design_variables = runs[2].design_variables
    /\ IsFin(runs[2].objective_value)
    /\ ~NumEq(runs[2].objective_value, LargePenalty)
----------------------------------------------------------------------------
(* Properties of calculate_range                                           *)

\* calculate_range has been called with a positive cruise speed and a fuel
\* weight from 0 up to, but not, the maximum takeoff weight, on an aircraft of
\* positive cl_max.
RangeCalled ==
    /\ ret.op = "calculate_range"
    /\ Gt(TheAircraft.cl_max, Py(0))
    /\ Gt(ret.arg[2], Py(0))
    /\ Ge(ret.arg[3], Py(0)) /\ Lt(ret.arg[3], TheMTOW)

----------------------------------------------------------------------------
(* The stall speed of the sample airliner                                  *)

\* calculate_stall_speed(0, 79000) has returned for the sample commercial
\* airliner (wing_area = 125.0, cl_max = 1.6).
AirlinerStallSpeed ==
    /\ ret.op = "calculate_stall_speed"
    /\ ret.arg = <<Py(0), Py(79000 * SCALE), Py(SCALE)>>
    /\ TheWingArea = Py(125000)
    /\ TheAircraft.cl_max = Py(1600)

\* sqrt(2 x 79000 x 9.81 / (rho x 125 x 1.6)), rho the sea-level density
StallFormula ==
    Sqrt(Div(Mul(Py(2 * SCALE), Mul(Py(79000 * SCALE), Py(9810))),
             Mul(Mul(Call("standard_atmosphere", <<Py(0)>>).density, Py(125000)), Py(1600))))

\* C14 as stated: for the sample commercial airliner, calculate_stall_speed(0,
\* 79000) with load factor 1 equals sqrt(2 x 79000 x 9.81 / (rho x 125 x 1.6))
\* with rho the sea-level density, and is within 1 m/s of 63.0 m/s.
C14_StallSpeedNear63 ==
    AirlinerStallSpeed =>
        /\ ret.raised = "none"
        /\ NumEq(ret.value, StallFormula)
        /\ Abs(ret.value.v - 63000) <= 1000

\* C14, amended: the value equals the formula, which is about 79.5 m/s
\* (within 1 m/s).
C14_StallSpeedNear79 ==
    AirlinerStallSpeed =>
        /\ ret.raised = "none"
        /\ NumEq(ret.value, StallFormula)
        /\ Abs(ret.value.v - 79500) <= 1000

\* The stall speed of the airliner at sea level has been computed.
C14_Witness == AirlinerStallSpeed /\ ret.value.k = "fin" /\ ret.value.v > 0
----------------------------------------------------------------------------
(* Continuity of the atmosphere at 11000 m                                 *)

\* C15: standard_atmosphere is continuous at the 11000 m layer boundary: the
\* temperature and pressure returned for altitude 11000 (troposphere branch)
\* equal those the stratosphere formula gives at 11000, and for every altitude
\* above 11000 the temperature is the one returned for 11000.
C15_ContinuousAt11km ==
    ret.op = "standard_atmosphere" =>
        /\ ret.arg[1] = Py(11000 * SCALE) =>
              /\ ret.value.temperature = Troposphere(ret.arg[1]).temperature
              /\ NumEq(ret.value.temperature, Stratosphere(ret.arg[1]).temperature)
              /\ ret.value.pressure = Troposphere(ret.arg[1]).pressure
              /\ NumEq(ret.value.pressure, Stratosphere(ret.arg[1]).pressure)
        /\ Gt(ret.arg[1], Py(11000 * SCALE)) =>
              NumEq(ret.value.temperature,
                    Call("standard_atmosphere", <<Py(11000 * SCALE)>>).temperature)

\* The atmosphere has been computed at the boundary: 216.65 K.
C15_Witness ==
    /\ ret.op = "standard_atmosphere"
    /\ ret.arg[1] = Py(11000 * SCALE)
    /\ ret.value.temperature = Py(216650)
    /\ Gt(ret.value.pressure, Py(0))
----------------------------------------------------------------------------
(* The scan of find_optimal_angle_of_attack to six decimals.  Near its      *)
(* maximum the L/D of neighbouring samples differs by less than 1e-3 of     *)
(* its value, which the three decimals of SCALE do not resolve: here the    *)
(* coefficients of an aircraft are integers in units of 1e-6.               *)

MICRO == 1000000

\* Product and quotient of two numbers in units of 1e-6, rounded toward zero,
\* in pieces that stay inside 32-bit integers (for magnitudes below 40).
MulMicro(a, b) ==
    LET a1 == Abs(a) \div 1000
        a0 == Abs(a) % 1000
        b1 == Abs(b) \div 1000
        b0 == Abs(b) % 1000
    IN Sgn(a) * Sgn(b) * (a1 * b1 + (a1 * b0 + a0 * b1 + (a0 * b0) \div 1000) \div 1000)

\* n more decimal digits of the quotient r / d, appended to acc.
RECURSIVE DivDigits(_, _, _, _)
DivDigits(r, d, n, acc) ==
    IF n = 0 THEN acc
    ELSE DivDigits((r * 10) % d, d, n - 1, acc * 10 + (r * 10) \div d)

DivMicro(a, b) ==
    Sgn(a) * Sgn(b) * DivDigits(Abs(a) % Abs(b), Abs(b), 6, Abs(a) \div Abs(b))

RECURSIVE SqrtMicroIter(_, _)
SqrtMicroIter(n, x) ==
    LET y == (x + DivMicro(n, x)) \div 2
    IN IF y >= x THEN x ELSE SqrtMicroIter(n, y)

\* The square root of a positive number in units of 1e-6.
SqrtMicro(n) == SqrtMicroIter(n, MaxInt(n, MICRO))

\* np.pi
PiMicro == 3141593

\* The coefficients of the aircraft a, in units of 1e-6: cd0 and cl_max are
\* the fields of a, k and cl_alpha are computed from the aspect ratio as
\* Aircraft.__init__ computes them.
CoefficientsMicro(a, h) ==
    LET aspect_ratio == h.geom[a.geometry].aspect_ratio.v * 1000
    IN [cd0 |-> a.cd0.v * 1000,
        k |-> DivMicro(MICRO, MulMicro(MulMicro(PiMicro, aspect_ratio), 800000)),
        cl_max |-> a.cl_max.v * 1000,
        cl_alpha |-> DivMicro(2 * PiMicro, MICRO + DivMicro(2 * MICRO, aspect_ratio))]

\* numpy.radians
RadiansMicro(angle) == Sgn(angle) * (MulMicro(Abs(angle), PiMicro) \div 180)

calculate_lift_coefficient_micro(c, angle_of_attack) ==
    MinInt(MulMicro(c.cl_alpha, RadiansMicro(angle_of_attack)), c.cl_max)

\* The drag polar without the induced drag.
DragParasiticMicro(c, lift_coefficient) == c.cd0

calculate_drag_coefficient_micro(c, lift_coefficient) ==
    c.cd0 + MulMicro(c.k, MulMicro(lift_coefficient, lift_coefficient))

calculate_lift_drag_ratio_micro(c, angle_of_attack) ==
    LET cl == calculate_lift_coefficient_micro(c, angle_of_attack)
        cd == calculate_drag_coefficient_micro(c, cl)
    IN IF cd > 0 THEN DivMicro(cl, cd) ELSE 0

\* numpy.linspace(-5, 20, NumAngles)[i] in units of 1e-6
AngleMicro(i) ==
    -5 * MICRO + ((i * 25) \div (NumAngles - 1)) * MICRO
               + (((i * 25) % (NumAngles - 1)) * MICRO) \div (NumAngles - 1)

\* One iteration of the loop, keeping the last of the best samples.
ScanStepMicroLast(c, i, best) ==
    LET ld_ratio == calculate_lift_drag_ratio_micro(c, AngleMicro(i))
    IN IF ld_ratio >= best.best_ld /\ ld_ratio > 0
       THEN [best_ld |-> ld_ratio, best_angle |-> AngleMicro(i)]
       ELSE best

\* One iteration of the loop of find_optimal_angle_of_attack, at sample i.
ScanStepMicro(c, i, best) ==
    LET ld_ratio == calculate_lift_drag_ratio_micro(c, AngleMicro(i))
    IN IF ld_ratio > best.best_ld
       THEN [best_ld |-> ld_ratio, best_angle |-> AngleMicro(i)]
       ELSE best

\* The iterations lo .. hi of the loop, in order (split in halves only to
\* keep the evaluation's nesting shallow; best_ld is never negative, the test
\* makes the first half be evaluated before the second).
RECURSIVE ScanMicro(_, _, _, _)
ScanMicro(c, lo, hi, best) ==
    IF lo > hi THEN best
    ELSE IF lo = hi THEN ScanStepMicro(c, lo, best)
    ELSE LET first == ScanMicro(c, lo, (lo + hi) \div 2, best)
         IN IF first.best_ld < 0 THEN first
            ELSE ScanMicro(c, (lo + hi) \div 2 + 1, hi, first)

\* find_optimal_angle_of_attack(): the angle returned, a sample of the
\* linspace (a numpy.float64) or the 0 best_angle starts as.
find_optimal_angle_of_attack_micro(c) ==
    LET best == ScanMicro(c, 0, NumAngles - 1, [best_ld |-> 0, best_angle |-> 0])
    IN IF best.best_angle = 0 THEN Py(0) ELSE Np(best.best_angle \div 1000)

----------------------------------------------------------------------------
(* The aerodynamic coefficients of an aircraft, called on their own        *)

\* The aircraft whose coefficients are computed: those of AnalysisHeaps, and
\* the small aircraft with cd0 overridden to 0.005, with cl_max overridden to
\* 0.3 (below the lift coefficient of the best L/D) and to -0.5.
AeroHeaps ==
    AnalysisHeaps \cup
    { AnalysisHeap(Geometry(4000, 2000, 500, 8000), Mass(1000, 500, 500, 2000), 5, 1600),
      AnalysisHeap(Geometry(4000, 2000, 500, 8000), Mass(1000, 500, 500, 2000), 25, 300),
      AnalysisHeap(Geometry(4000, 2000, 500, 8000), Mass(1000, 500, 500, 2000), 25, -500) }

InitAero ==
    /\ objectives = << >>
    /\ constraints = << >>
    /\ design_variables = << >>
    /\ bounds = << >>
    /\ heap \in AeroHeaps
    /\ pc = "idle"
    /\ search = NoSearch
    /\ ret = Ret("__init__", "none", Py(0), << >>, 0, 0, NoResult)
    /\ pre = [self |-> Self, heap |-> heap]
    /\ runs = << >>
    /\ frame = NoFrame

\* analyzer.find_optimal_angle_of_attack()
call_find_optimal_angle_of_attack ==
    /\ ret' = RetOf("find_optimal_angle_of_attack", << >>, "none",
                    find_optimal_angle_of_attack_micro(
                        CoefficientsMicro(heap.ac[base_aircraft], heap)))
    /\ pre' = [self |-> Self, heap |-> heap]
    /\ UNCHANGED <<objectives, constraints, design_variables, bounds, heap, pc, search, runs, frame>>

\* The angles of attack calculate_lift_coefficient is called with, in degrees.
LiftAngles == { 2 * d - 20 : d \in 0..30 } \cup {90, -90}

\* aircraft.calculate_lift_coefficient(angle_of_attack)
call_calculate_lift_coefficient(angle_of_attack) ==
    /\ \E r \in {Call("calculate_lift_coefficient", <<heap.ac[base_aircraft], angle_of_attack>>)} :
          ret' = RetOf("calculate_lift_coefficient", <<angle_of_attack>>,
                       IF IsExc(r) THEN r.k ELSE "none", r)
    /\ pre' = [self |-> Self, heap |-> heap]
    /\ UNCHANGED <<objectives, constraints, design_variables, bounds, heap, pc, search, runs, frame>>

NextAero ==
    \/ \E angle_of_attack \in LiftAngles :
          call_calculate_lift_coefficient(Py(angle_of_attack * SCALE))
    \/ call_find_optimal_angle_of_attack

SpecAero == InitAero /\ [][NextAero]_vars

\* C16: for every aircraft and every angle of attack,
\* calculate_lift_coefficient(aoa) never exceeds cl_max, equals cl_max whenever
\* cl_alpha x radians(aoa) > cl_max, and equals cl_alpha x radians(aoa)
\* otherwise: negative values are not clipped.
C16_LiftClippedAtClMax ==
    ret.op = "calculate_lift_coefficient" =>
        \E linear \in {Mul(TheAircraft.cl_alpha, Radians(ret.arg[1]))} :
            /\ ret.raised = "none"
            /\ ~Gt(ret.value, TheAircraft.cl_max)
            /\ Gt(linear, TheAircraft.cl_max) => NumEq(ret.value, TheAircraft.cl_max)
            /\ ~Gt(linear, TheAircraft.cl_max) => NumEq(ret.value, linear)

\* A lift coefficient has been clipped at a positive cl_max.
C16_Witness ==
    /\ ret.op = "calculate_lift_coefficient"
    /\ Gt(TheAircraft.cl_max, Py(0))
    /\ NumEq(ret.value, TheAircraft.cl_max)
    /\ Gt(Mul(TheAircraft.cl_alpha, Radians(ret.arg[1])), TheAircraft.cl_max)
----------------------------------------------------------------------------
(* Properties of find_optimal_angle_of_attack                              *)

TheCoefficients == CoefficientsMicro(TheAircraft, heap)

\* The samples whose angle, to three decimals, is the angle returned.
ReturnedSamples ==
    { i \in 0..(NumAngles - 1) : ret.value = Np(AngleMicro(i) \div 1000) }

SampleLD(i) == calculate_lift_drag_ratio_micro(TheCoefficients, AngleMicro(i))

\* find_optimal_angle_of_attack has returned for the representative airliner
\* (aspect_ratio = 10.2, cd0 = 0.025, cl_max = 1.6).
AirlinerOptimum ==
    /\ ret.op = "find_optimal_angle_of_attack"
    /\ heap.geom[TheAircraft.geometry].aspect_ratio = Py(10200)
    /\ TheAircraft.cd0 = Py(25)
    /\ TheAircraft.cl_max = Py(1600)

\* The lift coefficient at the angle returned is within one sample step,
\* cl_alpha x radians(25/99), of sqrt(cd0 / k).
WithinOneStep ==
    \E i \in ReturnedSamples :
        Abs(calculate_lift_coefficient_micro(TheCoefficients, AngleMicro(i))
            - SqrtMicro(DivMicro(TheCoefficients.cd0, TheCoefficients.k)))
          <= MulMicro(TheCoefficients.cl_alpha, RadiansMicro((25 * MICRO) \div 99))

\* C17 as stated: for the representative airliner the lift coefficient at the
\* angle returned by find_optimal_angle_of_attack is within one sample step of
\* the analytic optimum sqrt(cd0 / k), with k about 0.0488 and the optimal CL
\* about 0.716 (to the digits given: within 0.0005).
C17_OptimumNear0716 ==
    AirlinerOptimum =>
        /\ WithinOneStep
        /\ Abs(TheCoefficients.k - 48800) <= 500
        /\ Abs(SqrtMicro(DivMicro(TheCoefficients.cd0, TheCoefficients.k)) - 716000) <= 500

\* C17, amended: the same with k about 0.0390 and the optimal CL about 0.801.
C17_OptimumNear0801 ==
    AirlinerOptimum =>
        /\ WithinOneStep
        /\ Abs(TheCoefficients.k - 39000) <= 500
        /\ Abs(SqrtMicro(DivMicro(TheCoefficients.cd0, TheCoefficients.k)) - 801000) <= 500

\* The optimum of the airliner has been found among the samples.
C17_Witness == AirlinerOptimum /\ ReturnedSamples # {}

\* C18 as stated: for every aircraft, find_optimal_angle_of_attack returns one
\* of the 100 sample angles, no sampled angle has a strictly greater L/D than
\* the returned one, and among equal maxima the lowest angle is returned.
C18_ReturnsBestSample ==
    ret.op = "find_optimal_angle_of_attack" =>
        \E i \in ReturnedSamples :
            /\ \A j \in 0..(NumAngles - 1) : SampleLD(j) <= SampleLD(i)
            /\ \A j \in 0..(i - 1) : SampleLD(j) < SampleLD(i)

\* Some sampled angle has a positive L/D.
SomePositiveLD == \E j \in 0..(NumAngles - 1) : SampleLD(j) > 0

\* C18, amended: when some sampled angle has a positive L/D the angle returned
\* is the lowest of the samples of greatest L/D; when none has, it is 0, which
\* is not a sample.
C18_ReturnsBestPositiveSample ==
    ret.op = "find_optimal_angle_of_attack" =>
        /\ SomePositiveLD => C18_ReturnsBestSample
        /\ ~SomePositiveLD => (ret.value = Py(0) /\ ReturnedSamples = {})

\* The angle returned is the first of several samples of the greatest L/D.
C18_Witness ==
    /\ ret.op = "find_optimal_angle_of_attack"
    /\ \E i \in ReturnedSamples : \E j \in (i + 1)..(NumAngles - 1) :
          SampleLD(j) = SampleLD(i) /\ SampleLD(i) > 0
----------------------------------------------------------------------------
(* Sessions of generate_performance_envelope and calculate_climb_performance *)

\* The arguments of calculate_climb_performance: altitude ranges in m, weights
\* in kg, thrusts in N.
ClimbRanges == {<<0, 5000>>, <<0, 10000>>}
ClimbWeights == {800, 1000}
ClimbThrusts == {0, 500, 1000, 5000, 11000}

\* The aircraft whose envelope is computed: aircraft of 2 m2 of wing and
\* aspect ratio 8 weighing 1000 kg and 2500 kg (wing loadings of 500 and 1250
\* kg/m2, those of the sample airliner and fighter being 632 and 688), with
\* the coefficients of the constructor and with those of the sample fighter.
EnvelopeHeaps ==
    { AnalysisHeap(Geometry(4000, 2000, 500, 8000),
                   Mass(500 * SCALE, 300 * SCALE, 200 * SCALE, 1000 * SCALE), 25, 1600),
      AnalysisHeap(Geometry(4000, 2000, 500, 8000),
                   Mass(500 * SCALE, 300 * SCALE, 200 * SCALE, 1000 * SCALE), 18, 1800),
      AnalysisHeap(Geometry(4000, 2000, 500, 8000),
                   Mass(1500 * SCALE, 500 * SCALE, 500 * SCALE, 2500 * SCALE), 25, 1600) }

InitEnvelope ==
    /\ objectives = << >>
    /\ constraints = << >>
    /\ design_variables = << >>
    /\ bounds = << >>
    /\ heap \in EnvelopeHeaps
    /\ pc = "idle"
    /\ search = NoSearch
    /\ ret = Ret("__init__", "none", Py(0), << >>, 0, 0, NoResult)
    /\ pre = [self |-> Self, heap |-> heap]
    /\ runs = << >>
    /\ frame = NoFrame

\* analyzer.generate_performance_envelope(), up to the loops
generate_performance_envelope ==
    /\ pc = "idle"
    /\ pc' = "envelope"
    /\ frame' = [i |-> 1, j |-> 1]
    /\ ret' = RetOf("generate_performance_envelope", << >>, "none", performance_map)
    /\ pre' = [self |-> Self, heap |-> heap]
    /\ UNCHANGED <<objectives, constraints, design_variables, bounds, heap, search, runs>>

\* One iteration of the inner loop, the cell of frame.i and frame.j; the stall
\* speed of the row is stored before its first cell, and the map is returned
\* after the last cell.
envelope_cell ==
    /\ pc = "envelope"
    /\ \E v_stall \in {IF frame.j = 1
                       THEN Call("v_stall", <<heap.ac[base_aircraft], heap,
                                              ret.value.altitudes[frame.i]>>)
                       ELSE ret.value.stall_speeds[frame.i]} :
       \E cell \in {Call("generate_performance_envelope",
                         <<heap.ac[base_aircraft], heap, ret.value.altitudes[frame.i],
                           ret.value.speeds[frame.j], v_stall>>)} :
          ret' = [ret EXCEPT !.value.stall_speeds[frame.i] = v_stall,
                             !.value.ld_ratios[frame.i][frame.j] = cell.ld_ratio,
                             !.value.power_required[frame.i][frame.j] = cell.power_required,
                             !.raised = IF IsExc(v_stall) THEN v_stall.k
                                        ELSE IF IsExc(cell.ld_ratio) THEN cell.ld_ratio.k
                                        ELSE IF IsExc(cell.power_required)
                                             THEN cell.power_required.k
                                        ELSE "none"]
    /\ frame' = IF frame.j < NumSpeeds THEN [frame EXCEPT !.j = @ + 1]
                ELSE IF frame.i < NumAltitudes THEN [i |-> frame.i + 1, j |-> 1]
                ELSE NoFrame
    /\ pc' = IF frame.i = NumAltitudes /\ frame.j = NumSpeeds THEN "idle" ELSE "envelope"
    /\ UNCHANGED <<objectives, constraints, design_variables, bounds, heap, search, pre, runs>>

\* analyzer.calculate_climb_performance(altitude_range, weight, thrust_available)
call_calculate_climb_performance(altitude_range, weight, thrust_available) ==
    /\ pc = "idle"
    /\ ret' = RetOf("calculate_climb_performance",
                    <<altitude_range, weight, thrust_available>>, "none",
                    Call("calculate_climb_performance",
                         <<heap.ac[base_aircraft], heap, altitude_range, weight,
                           thrust_available>>))
    /\ pre' = [self |-> Self, heap |-> heap]
    /\ UNCHANGED <<objectives, constraints, design_variables, bounds, heap, pc, search, runs, frame>>

NextEnvelope ==
    \/ generate_performance_envelope
    \/ envelope_cell
    \/ \E altitude_range \in ClimbRanges, weight \in ClimbWeights,
          thrust_available \in ClimbThrusts :
          call_calculate_climb_performance(
              <<Py(altitude_range[1] * SCALE), Py(altitude_range[2] * SCALE)>>,
              Py(weight * SCALE), Py(thrust_available * SCALE))

SpecEnvelope == InitEnvelope /\ [][NextEnvelope]_vars

\* generate_performance_envelope has returned its map.
EnvelopeReturned == ret.op = "generate_performance_envelope" /\ pc = "idle"

\* The speed of column j is below the stall speed of row i, or the lift
\* coefficient level flight requires exceeds cl_max.
CannotFly(i, j) ==
    \/ Lt(ret.value.speeds[j], ret.value.stall_speeds[i])
    \/ Gt(Call("cl_required", <<TheAircraft, heap, ret.value.altitudes[i], ret.value.speeds[j]>>),
          TheAircraft.cl_max)

\* The cell has a finite power equal to drag x speed and a positive L/D equal
\* to CL / CD.
CellFlown(i, j) ==
    \E cl \in {Call("cl_required", <<TheAircraft, heap, ret.value.altitudes[i],
                                      ret.value.speeds[j]>>)} :
    \E cd \in {Call("calculate_drag_coefficient", <<TheAircraft, cl>>)} :
       /\ IsFin(ret.value.power_required[i][j])
       /\ NumEq(ret.value.power_required[i][j],
                Mul(Mul(Mul(Mul(Mul(Py(500),
                    Call("standard_atmosphere", <<ret.value.altitudes[i]>>).density),
                    Sq(ret.value.speeds[j])), TheWingArea), cd), ret.value.speeds[j]))
       /\ Gt(ret.value.ld_ratios[i][j], Py(0))
       /\ NumEq(ret.value.ld_ratios[i][j], Div(cl, cd))

----------------------------------------------------------------------------
(* Properties of calculate_climb_performance                               *)

ClimbReturned == ret.op = "calculate_climb_performance"

\* The thrust required at the n-th altitude of the result.
RequiredAt(n) ==
    Call("thrust_required", <<TheAircraft, heap, ret.value.altitudes[n], ret.arg[2]>>)

\* service_ceiling is the first sampled altitude whose climb rate is <= 0.508
\* m/s, and the maximum sampled altitude when no sample has such a rate.
CeilingRight ==
    \/ \E n \in 1..NumClimb :
          /\ Le(ret.value.climb_rates[n], Py(508))
          /\ \A m \in 1..(n - 1) : ~Le(ret.value.climb_rates[m], Py(508))
          /\ ret.value.service_ceiling = ret.value.altitudes[n]
    \/ /\ \A n \in 1..NumClimb : ~Le(ret.value.climb_rates[n], Py(508))
       /\ \A n \in 1..NumClimb : Le(ret.value.altitudes[n], ret.value.service_ceiling)
       /\ \E n \in 1..NumClimb : ret.value.service_ceiling = ret.value.altitudes[n]

\* C20: calculate_climb_performance returns 50 altitudes with parallel
\* climb_rates and climb_angles; a sample's rate and angle are 0 whenever the
\* available thrust does not exceed the required thrust and positive
\* otherwise; service_ceiling is the first sampled altitude whose climb rate
\* is <= 0.508 m/s, and the maximum sampled altitude when there is none.
C20_ClimbRatesAndAngles ==
    ClimbReturned =>
        /\ Len(ret.value.altitudes) = NumClimb
        /\ Len(ret.value.climb_rates) = NumClimb
        /\ Len(ret.value.climb_angles) = NumClimb
        /\ \A n \in 1..NumClimb :
              IF Le(ret.arg[3], RequiredAt(n))
              THEN /\ NumEq(ret.value.climb_rates[n], Py(0))
                   /\ NumEq(ret.value.climb_angles[n], Py(0))
              ELSE /\ Gt(ret.value.climb_rates[n], Py(0))
                   /\ Gt(ret.value.climb_angles[n], Py(0))
        /\ CeilingRight
----------------------------------------------------------------------------
(* Calls of calculate_service_ceiling                                      *)

\* The weights calculate_service_ceiling is called with, in kg: for the wing
\* of 2 m2 the wing loading is 1000 N/m2 at 203.9 kg and the ceiling meets its
\* minimum at 1325.2 kg, for the fighter's wing of 27.9 m2 at 2844.0 kg and
\* 18486 kg, for the airliner's of 125 m2 at 12742 kg and 82824 kg.
CeilingWeights ==
    {-100, 0, 1, 100, 203, 204, 205, 500, 1000, 1325, 1326, 2000, 2844, 2845, 5000,
     12742, 12743, 18486, 18487, 19200, 50000, 79000, 82824, 82825, 100000}

\* envelope.calculate_service_ceiling(weight)
call_calculate_service_ceiling(weight) ==
    /\ \E r \in {Call("calculate_service_ceiling", <<heap.ac[base_aircraft], heap, weight>>)} :
          ret' = RetOf("calculate_service_ceiling", <<weight>>,
                       IF IsExc(r) THEN r.k ELSE "none", r)
    /\ pre' = [self |-> Self, heap |-> heap]
    /\ UNCHANGED <<objectives, constraints, design_variables, bounds, heap, pc, search, runs, frame>>

NextCeiling ==
    \E weight \in CeilingWeights : call_calculate_service_ceiling(Py(weight * SCALE))

SpecCeiling == InitAnalysis /\ [][NextCeiling]_vars

CeilingReturned == ret.op = "calculate_service_ceiling"

\* WL = weight x 9.81 / wing_area of the call that returned, in thousandths.
CeilingWL == DivFix(MulFix(ret.arg[1].v, 9810), TheWingArea.v)

\* c of the call that returned, in thousandths.
CeilingC ==
    IF CeilingWL < 1000 * SCALE THEN 4000 * SCALE + (1000 * SCALE - CeilingWL) * 10
    ELSE 4000 * SCALE + (5000 * SCALE - CeilingWL) * 2

\* C21: for every weight and positive wing area, calculate_service_ceiling
\* returns max(1000, c) where c = 4000 + (1000 - WL) x 10 if the wing loading
\* WL = weight x 9.81 / wing_area is below 1000 and c = 4000 + (5000 - WL) x 2
\* otherwise; the result is never below 1000 m.
C21_CeilingFormula ==
    (CeilingReturned /\ TheWingArea.v > 0) =>
        /\ ret.raised = "none"
        /\ IsFin(ret.value)
        /\ ret.value.v = MaxInt(1000 * SCALE, CeilingC)
        /\ ret.value.v >= 1000 * SCALE

\* Both branches have returned a ceiling: this one is on the branch of heavier
\* aircraft and at the minimum of 1000 m.
C21_Witness ==
    /\ CeilingReturned
    /\ TheWingArea.v > 0
    /\ CeilingWL >= 1000 * SCALE
    /\ CeilingC < 1000 * SCALE
    /\ ret.value.v = 1000 * SCALE
\* The ceiling of the same aircraft at the weight of w kg.
CeilingAt(w) == Call("calculate_service_ceiling", <<TheAircraft, heap, Py(w * SCALE)>>)

\* C29: calculate_service_ceiling is monotonically non-increasing in weight
\* for a fixed aircraft: for weights w1 < w2, ceiling(w1) >= ceiling(w2),
\* including across the wing-loading breakpoint of 1000 N/m2.
C29_CeilingNonIncreasing ==
    (CeilingReturned /\ TheWingArea.v > 0) =>
        \A w2 \in CeilingWeights :
            Lt(ret.arg[1], Py(w2 * SCALE)) => Ge(ret.value, CeilingAt(w2))

\* The same on either side of the breakpoint only: two weights whose wing
\* loadings are both below 1000 N/m2, or both at least 1000 N/m2.
CeilingNonIncreasingOnEachBranch ==
    (CeilingReturned /\ TheWingArea.v > 0) =>
        \A w2 \in CeilingWeights :
            /\ Lt(ret.arg[1], Py(w2 * SCALE))
            /\ (CeilingWL < 1000 * SCALE
                <=> DivFix(MulFix(w2 * SCALE, 9810), TheWingArea.v) < 1000 * SCALE)
            => Ge(ret.value, CeilingAt(w2))
----------------------------------------------------------------------------
(* The points of the V-n diagram                                           *)

\* The stall speed of the diagram that was returned.
VnStall == Call("calculate_stall_speed", <<TheAircraft, heap, ret.arg[1], VnWeight, Py(1 * SCALE)>>)

\* The number of points on the positive stall boundary.
VnBoundary == Len(ret.value.velocities) - 5

\* Two load factors equal to within 0.02.
NearLoad(a, b) == IsFin(a) /\ IsFin(b) /\ Abs(a.v - b.v) <= 20

----------------------------------------------------------------------------
(* Sessions of set_design_variables and create_aircraft_from_variables     *)

\* The mappings set_design_variables is called with: those of the optimizer's
\* sessions, and mappings that name aspect_ratio and wing_chord.
FieldVarChoices ==
    VarChoices \cup
    { << Var("aspect_ratio", 2000, 4000) >>,
      << Var("wing_chord", 2000, 4000), Var("wing_span", 2000, 4000) >>,
      << Var("fuel_capacity", 0, 2000), Var("aspect_ratio", 2000, 4000) >>,
      << Var("taper_ratio", 0, 2000), Var("empty_weight", 2000, 4000) >> }

\* The design vectors create_aircraft_from_variables is called with.
FieldVectors ==
    { << Np(2000) >>, << Np(4000) >>, << Np(2000), Np(4000) >>, << Np(4000), Np(2000) >>,
      << Py(2000), Py(2000) >> }

\* A direct call of create_aircraft_from_variables(x, base_aircraft).
call_create_aircraft_from_variables(xs) ==
    /\ pc = "idle"
    /\ \E r \in {Call("create_aircraft_from_variables",
                       <<design_variables, xs, base_aircraft, Collect(heap)>>)} :
          /\ heap' = r.heap
          /\ ret' = Ret("create_aircraft_from_variables", r.exc, Py(0), xs, r.ac, 0, NoResult)
    /\ pre' = [self |-> Self, heap |-> Collect(heap)]
    /\ UNCHANGED <<objectives, constraints, design_variables, bounds, pc, search, runs, frame>>

\* The base aircraft: those of the optimizer's sessions, and the small
\* aircraft with the cd0 and cl_max create_sample_aircraft gives the fighter.
FieldHeaps ==
    { BaseHeap(g, BaseMass) : g \in BaseGeometries }
    \cup { AnalysisHeap(Geometry(4000, 2000, 500, 8000), BaseMass, 18, 1800) }

InitFields ==
    /\ objectives = << >>
    /\ constraints = << >>
    /\ design_variables = << >>
    /\ bounds = << >>
    /\ heap \in FieldHeaps
    /\ pc = "idle"
    /\ search = NoSearch
    /\ ret = Ret("__init__", "none", Py(0), << >>, 0, 0, NoResult)
    /\ pre = [self |-> Self, heap |-> heap]
    /\ runs = << >>
    /\ frame = NoFrame

NextFields ==
    \/ \E variables \in FieldVarChoices : set_design_variables(variables)
    \/ \E xs \in FieldVectors : call_create_aircraft_from_variables(xs)

SpecFields == InitFields /\ [][NextFields]_vars

\* create_aircraft_from_variables has returned an aircraft.
CandidateReturned == ret.op = "create_aircraft_from_variables" /\ ret.cand # 0

\* C23: design-variable values reach the field they are named for: after any
\* sequence of set_design_variables calls, for each index i the i-th entry of
\* bounds is the (min, max) of the i-th variable name, and
\* create_aircraft_from_variables(x, base) returns an aircraft whose geometry
\* or mass field of that name has value x[i], for every geometry and mass
\* field name including aspect_ratio and wing_chord.
C23_ValuesReachFields ==
    /\ Len(bounds) = Len(design_variables)
    /\ \A i \in 1..Len(bounds) : bounds[i] = <<design_variables[i].lo, design_variables[i].hi>>
    /\ CandidateReturned =>
          \A i \in 1..Len(design_variables) :
             \A f \in {design_variables[i].name} :
                /\ f \in DOMAIN CandGeometry => CandGeometry[f] = ret.xs[i]
                /\ f \in DOMAIN CandMass => CandMass[f] = ret.xs[i]

\* The same for every field name but aspect_ratio and wing_chord.
ValuesReachOtherFields ==
    /\ Len(bounds) = Len(design_variables)
    /\ \A i \in 1..Len(bounds) : bounds[i] = <<design_variables[i].lo, design_variables[i].hi>>
    /\ CandidateReturned =>
          \A i \in 1..Len(design_variables) :
             \A f \in {design_variables[i].name} :
                /\ f \in DOMAIN CandGeometry \ {"aspect_ratio", "wing_chord"}
                      => CandGeometry[f] = ret.xs[i]
                /\ f \in DOMAIN CandMass => CandMass[f] = ret.xs[i]
\* C24: the aircraft returned by create_aircraft_from_variables has the same
\* cd0 and cl_max as the base aircraft, including when the base aircraft's cd0
\* or cl_max were overridden after construction (as for the sample fighter).
C24_CoefficientsKept ==
    CandidateReturned =>
        /\ NumEq(heap.ac[ret.cand].cd0, TheAircraft.cd0)
        /\ NumEq(heap.ac[ret.cand].cl_max, TheAircraft.cl_max)

\* The same for a base aircraft that has the coefficients of the constructor.
CoefficientsKeptOfDefaults ==
    (/\ CandidateReturned
     /\ NumEq(TheAircraft.cd0, Py(25))
     /\ NumEq(TheAircraft.cl_max, Py(1600))) =>
        /\ NumEq(heap.ac[ret.cand].cd0, TheAircraft.cd0)
        /\ NumEq(heap.ac[ret.cand].cl_max, TheAircraft.cl_max)
----------------------------------------------------------------------------
(* Sessions of an optimizer on the sample airliner                         *)

\* The objectives registered: two MaximizeRange objectives that differ in
\* their cruise speed (1 and 2 m/s), with a fuel fraction of 0.25.
SessionObjectives == { RangeObjective(1000, 250), RangeObjective(2000, 250) }

\* The constraints registered: stall speeds of at most 47.5 m/s and 79 m/s at
\* sea level, and of at most 79 m/s at 5000 m.
SessionConstraints ==
    { Constraint("StallSpeedConstraint", 47500, 0),
      Constraint("StallSpeedConstraint", 79000, 0),
      Constraint("StallSpeedConstraint", 79000, 5000 * SCALE) }

\* The design variables of the sessions: the sweep angle, between 0 and 2.
SessionVariables == { << Var("sweep_angle", 0, 2000) >> }

\* The base aircraft is the sample airliner.
InitSessions ==
    /\ objectives = << >>
    /\ constraints = << >>
    /\ design_variables = << >>
    /\ bounds = << >>
    /\ heap = AnalysisHeap(Geometry(35800, 125000, 3500, 10200),
                           Mass(41000 * SCALE, 20000 * SCALE, 18000 * SCALE, 79000 * SCALE),
                           25, 1600)
    /\ pc = "idle"
    /\ search = NoSearch
    /\ ret = Ret("__init__", "none", Py(0), << >>, 0, 0, NoResult)
    /\ pre = [self |-> Self, heap |-> heap]
    /\ runs = << >>
    /\ frame = NoFrame

NextSessions ==
    \/ \E objective \in SessionObjectives : add_objective(objective)
    \/ \E constraint \in SessionConstraints : add_constraint(constraint)
    \/ \E variables \in SessionVariables : set_design_variables(variables)
    \/ \E xs \in BoxPoints(bounds) : call_objective_function(xs)
    \/ optimize_start("differential_evolution")
    \/ \E xs \in BoxPoints(bounds) : search_step(xs)
    \/ \E success \in BOOLEAN : optimize_finish(success)

SpecSessions == InitSessions /\ [][NextSessions]_vars

\* objective_function has returned for a candidate that was built and
\* evaluated without an exception.
ValidCandidate ==
    /\ ret.op = "objective_function"
    /\ ret.cand # 0
    /\ ~EvaluationRaises(pre.self, ret.cand, heap)

\* C25: the fixed fallback value 1e6 returned for an invalid candidate is
\* never smaller than the combined objective of a candidate that evaluates
\* without exception: for every valid candidate, including ones that violate
\* constraints, objective_function(x) <= 1e6.
C25_FallbackIsWorst ==
    ValidCandidate => Le(ret.value, LargePenalty)

\* The same for the candidates that satisfy every constraint.
FallbackWorseThanFeasible ==
    (ValidCandidate /\ AllSatisfied(constraints, heap.ac[ret.cand], heap)) =>
        Le(ret.value, LargePenalty)

\* optimize has returned a result that reports success.
OptimizeSucceeded ==
    /\ ret.op = "optimize" /\ pc = "idle" /\ ret.raised = "none"
    /\ ret.result.success

\* C26: after any sequence of add_objective and add_constraint calls followed
\* by a successful optimize, the result's 'objectives' mapping has exactly one
\* entry per registered objective and its 'constraints' mapping exactly one
\* entry per registered constraint, also when two registered objectives (or
\* constraints) are of the same class with different parameters.
C26_OneEntryEach ==
    OptimizeSucceeded =>
        /\ Cardinality(DOMAIN ret.result.objectives) = Len(objectives)
        /\ Cardinality(DOMAIN ret.result.constraints) = Len(constraints)

\* The same when the names of the registered objectives differ from one
\* another, and those of the constraints.
OneEntryPerName ==
    (/\ OptimizeSucceeded
     /\ \A i, j \in 1..Len(objectives) : i # j => ObjName(objectives[i]) # ObjName(objectives[j])
     /\ \A i, j \in 1..Len(constraints) :
            i # j => ConName(constraints[i]) # ConName(constraints[j])) =>
        /\ Cardinality(DOMAIN ret.result.objectives) = Len(objectives)
        /\ Cardinality(DOMAIN ret.result.constraints) = Len(constraints)
----------------------------------------------------------------------------
(* The three computations of the stall speed                               *)

\* Two computations end the same way: the same exception, or nan both, or the
\* same number.
SameOutcome(a, b) == (a.t = "exc") = (b.t = "exc") /\ a.k = b.k /\ a.v = b.v

\* envelope.calculate_stall_speed(altitude, MTOW, 1.0) of the aircraft
StallSpeedAt(altitude) ==
    Call("calculate_stall_speed", <<TheAircraft, heap, altitude, TheMTOW, Py(1 * SCALE)>>)

\* C27: the independent stall-speed computations agree: for every aircraft
\* and altitude, the stall speed used by StallSpeedConstraint equals
\* FlightEnvelope.calculate_stall_speed(altitude, MTOW, 1.0), and the v_stall
\* reported by analyze_takeoff_performance equals
\* calculate_stall_speed(0, MTOW, 1.0).
C27_StallSpeedsAgree ==
    /\ (ret.op = "evaluate" /\ ret.arg.cls = "StallSpeedConstraint") =>
          \A v_stall \in {StallSpeedAt(ret.arg.altitude)} :
             /\ SameOutcome(ConstraintStallSpeed(ret.arg, TheAircraft, heap), v_stall)
             /\ SameOutcome(ret.value, PyMax0(Sub(v_stall, ret.arg.limit)))
    /\ ret.op = "analyze_takeoff_performance" =>
          SameOutcome(ret.value.v_stall, StallSpeedAt(Py(0)))

\* A constraint at 5000 m has been evaluated on an aircraft that exceeds its
\* limit, where the stall speed is not the one of sea level.
C27_Witness ==
    /\ ret.op = "evaluate" /\ ret.arg.cls = "StallSpeedConstraint"
    /\ ret.arg.altitude = Py(5000 * SCALE)
    /\ Gt(ret.value, Py(0))
    /\ Gt(StallSpeedAt(ret.arg.altitude), StallSpeedAt(Py(0)))
----------------------------------------------------------------------------
(* Calls of calculate_range and calculate_endurance at several altitudes   *)

\* The aircraft: wings of 2 m2 and aspect ratios 8, 3.6 and 18 on an aircraft
\* of 2 kg, with the coefficients of the constructor or those of the sample
\* fighter.
CruiseHeaps ==
    { AnalysisHeap(Geometry(4000, 2000, 500, 8000), Mass(1000, 500, 500, 2000), 25, 1600),
      AnalysisHeap(Geometry(4000, 2000, 500, 8000), Mass(1000, 500, 500, 2000), 18, 1800),
      AnalysisHeap(Geometry(2683, 2000, 745, 3600), Mass(1000, 500, 500, 2000), 18, 1800),
      AnalysisHeap(Geometry(6000, 2000, 333, 18000), Mass(1000, 500, 500, 2000), 25, 1600) }

InitCruise ==
    /\ objectives = << >>
    /\ constraints = << >>
    /\ design_variables = << >>
    /\ bounds = << >>
    /\ heap \in CruiseHeaps
    /\ pc = "idle"
    /\ search = NoSearch
    /\ ret = Ret("__init__", "none", Py(0), << >>, 0, 0, NoResult)
    /\ pre = [self |-> Self, heap |-> heap]
    /\ runs = << >>
    /\ frame = NoFrame

\* The cruise altitudes, in m, and the fuel weights, in thousandths of the
\* maximum takeoff weight.
CruiseAltitudes == {0, 5000, 10000, 12000}
CruiseFuels == {250, 500, 750}

\* analyzer.calculate_endurance(altitude, fuel_weight)
call_calculate_endurance(altitude, fuel_weight) ==
    /\ \E r \in {Call("calculate_endurance",
                       <<heap.ac[base_aircraft], heap, altitude, fuel_weight>>)} :
          ret' = RetOf("calculate_endurance", <<altitude, fuel_weight>>,
                       IF IsExc(r) THEN r.k ELSE "none", r)
    /\ pre' = [self |-> Self, heap |-> heap]
    /\ UNCHANGED <<objectives, constraints, design_variables, bounds, heap, pc, search, runs, frame>>

NextCruise ==
    \/ \E cruise_altitude \in CruiseAltitudes, cruise_speed \in {1000, 2000},
          fuel \in CruiseFuels :
          call_calculate_range(Py(cruise_altitude * SCALE), Py(cruise_speed),
                               WeightShare(TheMTOW, fuel), DefaultSfc)
    \/ \E altitude \in CruiseAltitudes, fuel \in CruiseFuels :
          call_calculate_endurance(Py(altitude * SCALE), WeightShare(TheMTOW, fuel))

SpecCruise == InitCruise /\ [][NextCruise]_vars

\* The range of the call that returned, had it been asked at the altitude of
\* cruise_altitude m.
RangeAtAltitude(cruise_altitude) ==
    Call("calculate_range", <<TheAircraft, heap, Py(cruise_altitude * SCALE),
                              ret.arg[2], ret.arg[3], ret.arg[4]>>)

\* C28: calculate_range does not depend on cruise_altitude: for any two
\* cruise altitudes and the same aircraft, cruise_speed, fuel_weight and sfc,
\* the returned range is identical.
C28_RangeIgnoresAltitude ==
    ret.op = "calculate_range" =>
        \A cruise_altitude \in CruiseAltitudes :
            SameOutcome(ret.value, RangeAtAltitude(cruise_altitude))

\* A positive range has been returned for a cruise at 12000 m, in the
\* stratosphere.
C28_Witness ==
    /\ ret.op = "calculate_range"
    /\ ret.arg[1] = Py(12000 * SCALE)
    /\ Gt(ret.value, Py(0))
EnduranceReturned == ret.op = "calculate_endurance"

\* C30: the flight condition calculate_endurance uses is flyable: for every
\* aircraft, the lift coefficient it flies at, sqrt(3 x cd0 / k), does not
\* exceed the aircraft's cl_max (equivalently, the endurance speed is not
\* below the stall speed at that altitude and MTOW).
C30_EnduranceFlyable ==
    EnduranceReturned =>
        /\ ret.raised = "none"
        /\ Le(EnduranceLift(TheAircraft), TheAircraft.cl_max)
        /\ Ge(EnduranceSpeed(TheAircraft, heap, ret.arg[1]), StallSpeedAt(ret.arg[1]))

\* The same for the aircraft whose aspect ratio is at most 8.
EnduranceFlyableAtLowAspectRatio ==
    (EnduranceReturned /\ Le(heap.geom[TheAircraft.geometry].aspect_ratio, Py(8 * SCALE))) =>
        /\ ret.raised = "none"
        /\ IsFin(ret.value) /\ Gt(ret.value, Py(0))
        /\ Le(EnduranceLift(TheAircraft), TheAircraft.cl_max)
        /\ Ge(EnduranceSpeed(TheAircraft, heap, ret.arg[1]), StallSpeedAt(ret.arg[1]))
====
